---------------------------- MODULE Spec2Model ----------------------------
(***************************************************************************)
(* A model of the BRI statement readers of almira-bw/estatement-readers:   *)
(* src/bri_streamlit_app.py and src/app.py.  Both files define the same    *)
(* functions; the variable impl says which file's definitions run.         *)
(*                                                                         *)
(* Python strings are TLA+ strings, worked on character by character with  *)
(* Len, SubSeq and \o.  A float amount is an integer number of hundredths  *)
(* (1234.56 is 123456): every amount the parsers produce has at most two   *)
(* fraction digits.  None is the empty tuple << >> and a present value v   *)
(* is the one-element tuple << v >>.                                       *)
(***************************************************************************)
EXTENDS Integers, Sequences, FiniteSets, TLC

VARIABLES impl, pc, arg, ret, hist

vars == <<impl, pc, arg, ret, hist>>

Impls == {"bri_streamlit_app", "app"}

None == << >>
Some(v) == << v >>

-----------------------------------------------------------------------------
(* Characters and the str methods the code uses                            *)

Ch(s, i) == SubSeq(s, i, i)

DigitStr == "0123456789"
LowerStr == "abcdefghijklmnopqrstuvwxyz"
UpperStr == "ABCDEFGHIJKLMNOPQRSTUVWXYZ"

Digits == {Ch(DigitStr, i) : i \in 1..10}
LowerLetters == {Ch(LowerStr, i) : i \in 1..26}
UpperLetters == {Ch(UpperStr, i) : i \in 1..26}
Letters == LowerLetters \cup UpperLetters
WordChars == Letters \cup Digits \cup {"_"}
Whitespace == {" ", "\t", "\n", "\r", "\f"}

DigitVal(c) == CHOOSE d \in 0..9 : Ch(DigitStr, d + 1) = c

UpperCh(c) ==
    IF c \in LowerLetters
    THEN Ch(UpperStr, CHOOSE i \in 1..26 : Ch(LowerStr, i) = c)
    ELSE c

RECURSIVE Upper(_)
Upper(s) == IF s = "" THEN "" ELSE UpperCh(Ch(s, 1)) \o Upper(Tail(s))

AllIn(s, cs) == \A i \in 1..Len(s) : Ch(s, i) \in cs

StartsWith(s, p) == Len(p) <= Len(s) /\ SubSeq(s, 1, Len(p)) = p

(* s.find(sub) + 1 searched from position from: the first index at which   *)
(* sub occurs, 0 when it does not occur.                                   *)
IndexFrom(s, sub, from) ==
    LET hits == {i \in from..(Len(s) - Len(sub) + 1) :
                    SubSeq(s, i, i + Len(sub) - 1) = sub}
    IN IF hits = {} THEN 0 ELSE CHOOSE i \in hits : \A j \in hits : i <= j

Contains(s, sub) == IndexFrom(s, sub, 1) # 0

Count(s, c) == Cardinality({i \in 1..Len(s) : Ch(s, i) = c})

RECURSIVE RemoveChars(_, _)
RemoveChars(s, cs) ==
    IF s = "" THEN ""
    ELSE (IF Ch(s, 1) \in cs THEN "" ELSE Ch(s, 1)) \o RemoveChars(Tail(s), cs)

RECURSIVE LStrip(_)
LStrip(s) == IF s # "" /\ Ch(s, 1) \in Whitespace THEN LStrip(Tail(s)) ELSE s

RECURSIVE RStrip(_)
RStrip(s) ==
    IF s # "" /\ Ch(s, Len(s)) \in Whitespace
    THEN RStrip(SubSeq(s, 1, Len(s) - 1))
    ELSE s

Strip(s) == RStrip(LStrip(s))

(* s.split(sep): the pieces between the occurrences of sep, empty ones kept *)
RECURSIVE Split(_, _)
Split(s, sep) ==
    LET i == IndexFrom(s, sep, 1)
    IN IF i = 0 THEN <<s>>
       ELSE <<SubSeq(s, 1, i - 1)>> \o Split(SubSeq(s, i + Len(sep), Len(s)), sep)

(* s.split(): the maximal runs of non-whitespace characters                *)
RECURSIVE SplitWs(_)
SplitWs(s) ==
    LET t == LStrip(s)
        ends == {i \in 1..Len(t) : Ch(t, i) \in Whitespace}
        e == IF ends = {} THEN Len(t) + 1
             ELSE CHOOSE i \in ends : \A j \in ends : i <= j
    IN IF t = "" THEN << >>
       ELSE <<SubSeq(t, 1, e - 1)>> \o SplitWs(SubSeq(t, e, Len(t)))

RECURSIVE Join(_, _)
Join(ws, sep) ==
    IF ws = << >> THEN ""
    ELSE IF Len(ws) = 1 THEN ws[1]
    ELSE ws[1] \o sep \o Join(Tail(ws), sep)

IsAlpha(w) == w # "" /\ AllIn(w, Letters)

-----------------------------------------------------------------------------
(* Numbers                                                                 *)

RECURSIVE DigitsValue(_)
DigitsValue(s) ==
    IF s = "" THEN 0
    ELSE 10 * DigitsValue(SubSeq(s, 1, Len(s) - 1)) + DigitVal(Ch(s, Len(s)))

(* float(s) on the characters of the model: an optional sign, then digits  *)
(* with at most one '.', at least one digit in all; anything else raises   *)
(* ValueError.  The value is in hundredths; clean_amount reaches float()   *)
(* with no fraction or with exactly two fraction digits only.              *)
PyFloat(s) ==
    LET signed == s # "" /\ Ch(s, 1) \in {"+", "-"}
        body == IF signed THEN Tail(s) ELSE s
        dot == IndexFrom(body, ".", 1)
        ip == IF dot = 0 THEN body ELSE SubSeq(body, 1, dot - 1)
        fp == IF dot = 0 THEN "" ELSE SubSeq(body, dot + 1, Len(body))
        wellFormed == /\ AllIn(ip, Digits)
                      /\ AllIn(fp, Digits)
                      /\ Len(ip) + Len(fp) >= 1
        frac == IF Len(fp) = 0 THEN 0
                ELSE IF Len(fp) = 1 THEN 10 * DigitsValue(fp)
                ELSE DigitsValue(SubSeq(fp, 1, 2))
        mag == 100 * DigitsValue(ip) + frac
    IN IF ~wellFormed THEN [err |-> TRUE, val |-> 0]
       ELSE [err |-> FALSE,
             val |-> IF signed /\ Ch(s, 1) = "-" THEN 0 - mag ELSE mag]

RECURSIVE NatStr(_)
NatStr(n) ==
    IF n < 10 THEN Ch(DigitStr, n + 1)
    ELSE NatStr(n \div 10) \o Ch(DigitStr, (n % 10) + 1)

(* str(v) of a float v given in hundredths: the shortest form that reads   *)
(* back as v, which keeps one fraction digit when the second is 0          *)
(* ("500.0", "1234.5", "1234.56").                                         *)
FloatStr(v) ==
    LET a == IF v < 0 THEN 0 - v ELSE v
        f == a % 100
    IN (IF v < 0 THEN "-" ELSE "") \o NatStr(a \div 100) \o "." \o
       (IF f % 10 = 0 THEN NatStr(f \div 10)
        ELSE NatStr(f \div 10) \o NatStr(f % 10))

-----------------------------------------------------------------------------
(* clean_amount                                                            *)

clean_amount_try_anyfraction(s) ==
    LET cleaned == RemoveChars(s, {","} \cup Whitespace)
        parts == Split(cleaned, ".")
    IN IF Contains(cleaned, ".") /\ Len(parts) # 2
       THEN PyFloat(RemoveChars(cleaned, {"."}))
       ELSE PyFloat(cleaned)

(* The body of the try block: strip ',' and whitespace; a single '.'       *)
(* followed by exactly two characters is a decimal point, any other '.'    *)
(* is dropped; then float().                                               *)
clean_amount_try(s) ==
    LET cleaned == RemoveChars(s, {","} \cup Whitespace)
        parts == Split(cleaned, ".")
    IN IF Contains(cleaned, ".")
       THEN IF Len(parts) = 2 /\ Len(parts[2]) = 2
            THEN PyFloat(cleaned)
            ELSE PyFloat(RemoveChars(cleaned, {"."}))
       ELSE PyFloat(cleaned)

clean_amount_noexcept(a) ==
    IF a = None \/ a[1] = "" \/ Strip(a[1]) = ""
    THEN [raised |-> FALSE, val |-> 0]
    ELSE LET r == clean_amount_try(a[1])
         IN [raised |-> r.err, val |-> r.val]

(* clean_amount(amount_str), amount_str a str or None.  raised says        *)
(* whether an exception leaves the function.                               *)
clean_amount(a) ==
    IF a = None \/ a[1] = "" \/ Strip(a[1]) = ""
    THEN [raised |-> FALSE, val |-> 0]
    ELSE LET r == clean_amount_try(a[1])
         IN IF r.err THEN [raised |-> FALSE, val |-> 0]
            ELSE [raised |-> FALSE, val |-> r.val]

-----------------------------------------------------------------------------
(* Regular expressions.  A pattern is a sequence of items matched left to  *)
(* right with backtracking, as the re module does: a literal, a repeated   *)
(* character class (greedy or lazy), an ordered alternative of literals    *)
(* and end-of-string, a word boundary, an ordered alternative of           *)
(* sub-patterns (?:a|b), a lookahead (?=a|b).  A match is the tuple of the *)
(* positions at which the items start, followed by the position after the  *)
(* match; << >> means no match.                                            *)

Lit(x) == [k |-> "lit", s |-> x, ci |-> FALSE]
LitCI(x) == [k |-> "lit", s |-> x, ci |-> TRUE]
Rep(cls, lo, hi) ==
    [k |-> "rep", cls |-> cls, neg |-> FALSE, lo |-> lo, hi |-> hi, lazy |-> FALSE]
RepNot(cls, lo, hi) ==
    [k |-> "rep", cls |-> cls, neg |-> TRUE, lo |-> lo, hi |-> hi, lazy |-> FALSE]
Lazy(it) == [it EXCEPT !.lazy = TRUE]
Eos == [k |-> "eos"]
WordB == [k |-> "wb"]
Alt(opts) == [k |-> "alt", opts |-> opts]
Grp(opts) == [k |-> "grp", opts |-> opts]
Look(opts) == [k |-> "look", opts |-> opts]
Mark == [k |-> "mark"]
LazyStar(sub) == [k |-> "lazystar", sub |-> sub]

InCls(it, c) == IF it.neg THEN c \notin it.cls ELSE c \in it.cls

(* the longest run of class characters at j, cut at the item's hi (-1: no  *)
(* upper limit)                                                            *)
RunLen(it, s, j) ==
    LET stops == {n \in j..Len(s) : ~InCls(it, Ch(s, n))}
        run == (IF stops = {} THEN Len(s) + 1
                ELSE CHOOSE n \in stops : \A m \in stops : n <= m) - j
    IN IF it.hi >= 0 /\ run > it.hi THEN it.hi ELSE run

LitAt(it, s, j) ==
    /\ j + Len(it.s) - 1 <= Len(s)
    /\ LET sub == SubSeq(s, j, j + Len(it.s) - 1)
       IN IF it.ci THEN Upper(sub) = Upper(it.s) ELSE sub = it.s

AtEos(s, j) == j = Len(s) + 1 \/ (j = Len(s) /\ Ch(s, j) = "\n")

IsWordAt(s, j) == j >= 1 /\ j <= Len(s) /\ Ch(s, j) \in WordChars

AtWordB(s, j) == IsWordAt(s, j - 1) # IsWordAt(s, j)

Cons(j, r) == IF r = << >> THEN << >> ELSE <<j>> \o r

RECURSIVE ReM(_, _, _, _)
RECURSIVE ReRep(_, _, _, _, _, _)
RECURSIVE ReAlt(_, _, _, _, _)
RECURSIVE ReGrp(_, _, _, _, _)
RECURSIVE ReLazyStar(_, _, _, _)

ReM(p, i, s, j) ==
    IF i > Len(p) THEN <<j>>
    ELSE LET it == p[i]
         IN CASE it.k = "lit" ->
                   IF LitAt(it, s, j)
                   THEN Cons(j, ReM(p, i + 1, s, j + Len(it.s)))
                   ELSE << >>
              [] it.k = "rep" ->
                   LET m == RunLen(it, s, j)
                   IN IF m < it.lo THEN << >>
                      ELSE ReRep(p, i, s, j, IF it.lazy THEN it.lo ELSE m, m)
              [] it.k = "eos" ->
                   IF AtEos(s, j) THEN Cons(j, ReM(p, i + 1, s, j)) ELSE << >>
              [] it.k = "wb" ->
                   IF AtWordB(s, j) THEN Cons(j, ReM(p, i + 1, s, j)) ELSE << >>
              [] it.k = "alt" -> ReAlt(p, i, s, j, 1)
              [] it.k = "mark" -> Cons(j, ReM(p, i + 1, s, j))
              [] it.k = "grp" -> ReGrp(p, i, s, j, 1)
              [] it.k = "lazystar" -> ReLazyStar(p, i, s, j)
              [] it.k = "look" ->
                   IF \E o \in 1..Len(it.opts) : ReM(it.opts[o], 1, s, j) # << >>
                   THEN Cons(j, ReM(p, i + 1, s, j))
                   ELSE << >>

(* item i repeated n times, then the rest; on failure the next count in    *)
(* the item's order (fewer when greedy, more when lazy) for which the rest *)
(* matches                                                                 *)
ReRep(p, i, s, j, n, m) ==
    LET r == ReM(p, i + 1, s, j + n)
        others == {k \in p[i].lo..m : k # n /\ ReM(p, i + 1, s, j + k) # << >>}
    IN IF r # << >> THEN <<j>> \o r
       ELSE IF others = {} THEN << >>
       ELSE <<j>> \o ReM(p, i + 1, s,
                         j + CHOOSE k \in others :
                                \A o \in others : IF p[i].lazy THEN k <= o ELSE k >= o)

ReAlt(p, i, s, j, o) ==
    IF o > Len(p[i].opts) THEN << >>
    ELSE LET opt == p[i].opts[o]
             r == IF opt.k = "eos"
                  THEN (IF AtEos(s, j) THEN ReM(p, i + 1, s, j) ELSE << >>)
                  ELSE (IF LitAt(opt, s, j)
                        THEN ReM(p, i + 1, s, j + Len(opt.s))
                        ELSE << >>)
         IN IF r # << >> THEN <<j>> \o r ELSE ReAlt(p, i, s, j, o + 1)

(* the alternatives of a group in their order, each followed by the rest   *)
(* of the pattern; the positions inside the alternative are left out       *)
ReGrp(p, i, s, j, o) ==
    IF o > Len(p[i].opts) THEN << >>
    ELSE LET opt == p[i].opts[o]
             r == ReM(opt \o SubSeq(p, i + 1, Len(p)), 1, s, j)
         IN IF r # << >> THEN <<j>> \o SubSeq(r, Len(opt) + 1, Len(r))
            ELSE ReGrp(p, i, s, j, o + 1)

(* (?:sub)*? : the rest of the pattern at once, and when that fails one    *)
(* more sub (which takes at least one character) and the same item again   *)
ReLazyStar(p, i, s, j) ==
    LET r == ReM(p, i + 1, s, j)
    IN IF r # << >> THEN <<j>> \o r
       ELSE LET sub == p[i].sub
                q == ReM(sub \o SubSeq(p, i, Len(p)), 1, s, j)
            IN IF q = << >> THEN << >>
               ELSE <<j>> \o SubSeq(q, Len(sub) + 2, Len(q))

(* re.match(p, s): a match at the start of s                               *)
ReMatch(p, s) == ReM(p, 1, s, 1)

(* the first entry of ms that is a match, and its index; 0 when none is    *)
FirstIndex(ms) ==
    IF \A k \in DOMAIN ms : ms[k] = << >> THEN 0
    ELSE CHOOSE k \in DOMAIN ms : ms[k] # << >> /\ \A n \in 1..(k - 1) : ms[n] = << >>

FirstOf(ms) == IF FirstIndex(ms) = 0 THEN << >> ELSE ms[FirstIndex(ms)]

(* the index of the first match of ms together with that match             *)
WhichOf(ms) == [which |-> FirstIndex(ms), m |-> FirstOf(ms)]

(* re.search(p, s): the match at the leftmost position that has one        *)
ReSearch(p, s) == FirstOf([j \in 1..(Len(s) + 1) |-> ReM(p, 1, s, j)])

(* the text of item g of match r (a group that is one item)                *)
Group(s, r, g) == SubSeq(s, r[g], r[g + 1] - 1)

(* m.group(g) of a pattern whose parentheses are written as Mark items:    *)
(* the text between the g-th pair of marks                                 *)
Capture(p, s, r, g) ==
    LET marks == {i \in 1..Len(p) : p[i].k = "mark"}
        Nth(n) == CHOOSE i \in marks : Cardinality({m \in marks : m < i}) = n - 1
    IN SubSeq(s, r[Nth(2 * g - 1)], r[Nth(2 * g)] - 1)

(* the first entry of ws that found a match                                *)
FirstWhich(ws) ==
    IF \A k \in DOMAIN ws : ws[k].which = 0 THEN [which |-> 0, m |-> << >>]
    ELSE ws[CHOOSE k \in DOMAIN ws :
               ws[k].which # 0 /\ \A n \in 1..(k - 1) : ws[n].which = 0]

(* re.search over the patterns the alternatives of a leading (?:a|b) give: *)
(* the leftmost position at which one of them matches, and there the first *)
(* one that does; which is 0 when none matches                             *)
ReSearchAny(ps, s) ==
    FirstWhich([j \in 1..(Len(s) + 1) |->
                  WhichOf([o \in 1..Len(ps) |-> ReM(ps[o], 1, s, j)])])

-----------------------------------------------------------------------------
(* The fine-grained transaction parsers                                    *)

(* text.split('\n') in bri_streamlit_app.py; app.py writes "\\n", which    *)
(* is a backslash followed by the letter n                                 *)
LineSep(im) == IF im = "app" THEN "\\n" ELSE "\n"

(* r'^\d{2}/\d{2}/\d{2}\s+\d{2}:\d{2}:\d{2}' in bri_streamlit_app.py;      *)
(* app.py doubles the backslashes inside the raw string, so its pattern    *)
(* asks for a backslash and the letters d or s themselves                  *)
AnchorRe(im) ==
    IF im = "app"
    THEN << Lit("\\"), Rep({"d"}, 2, 2), Lit("/"),
            Lit("\\"), Rep({"d"}, 2, 2), Lit("/"),
            Lit("\\"), Rep({"d"}, 2, 2),
            Lit("\\"), Rep({"s"}, 1, -1),
            Lit("\\"), Rep({"d"}, 2, 2), Lit(":"),
            Lit("\\"), Rep({"d"}, 2, 2), Lit(":"),
            Lit("\\"), Rep({"d"}, 2, 2) >>
    ELSE << Rep(Digits, 2, 2), Lit("/"), Rep(Digits, 2, 2), Lit("/"),
            Rep(Digits, 2, 2), Rep(Whitespace, 1, -1),
            Rep(Digits, 2, 2), Lit(":"), Rep(Digits, 2, 2), Lit(":"),
            Rep(Digits, 2, 2) >>

(* the amount shape with a leading sign allowed                            *)
AmountShapeRe_signed(im) ==
    IF im = "app"
    THEN << Rep({"-"}, 0, 1), Rep({"\\", "d", ",", "."}, 1, -1), Eos >>
    ELSE << Rep({"-"}, 0, 1), Rep(Digits \cup {",", "."}, 1, -1), Eos >>

(* r'^[\d,\.]+$' and r'^\d{7}$'                                            *)
AmountShapeRe(im) ==
    IF im = "app"
    THEN << Rep({"\\", "d", ",", "."}, 1, -1), Eos >>
    ELSE << Rep(Digits \cup {",", "."}, 1, -1), Eos >>

TellerShapeRe(im) ==
    IF im = "app"
    THEN << Lit("\\"), Rep({"d"}, 7, 7), Eos >>
    ELSE << Rep(Digits, 7, 7), Eos >>

CmsCodes == {"CMSPYRL", "BRI0372", "BRIMDBT"}

IsNumericPart(im, cms, part) ==
    \/ ReMatch(AmountShapeRe(im), part) # << >>
    \/ ReMatch(TellerShapeRe(im), part) # << >>
    \/ (cms /\ part \in CmsCodes)

numeric_parts_any_shape(im, cms, parts, i, acc) ==
    IF i < 4 THEN SubSeq(parts, 1, i) ELSE SubSeq(parts, i - 3, i)

(* for i in range(len(parts) - 1, -1, -1): collect the numeric-shaped      *)
(* parts from the end, at most four                                        *)
RECURSIVE numeric_parts(_, _, _, _, _)
numeric_parts(im, cms, parts, i, acc) ==
    IF i < 1 \/ Len(acc) = 4 THEN acc
    ELSE numeric_parts(im, cms, parts, i - 1,
                       IF IsNumericPart(im, cms, parts[i])
                       THEN <<parts[i]>> \o acc ELSE acc)

description_of(parts) == Strip(Join(SubSeq(parts, 3, Len(parts) - 4), " "))

estatement_line_teller_as_debit(im, raw) ==
    LET line == Strip(raw)
        parts == SplitWs(line)
        np == numeric_parts(im, FALSE, parts, Len(parts), << >>)
    IN IF line = "" \/ ReMatch(AnchorRe(im), line) = << >>
          \/ Len(parts) < 7 \/ Len(np) # 4
       THEN << >>
       ELSE << [tanggal |-> parts[1],
                waktu |-> parts[2],
                deskripsi |-> description_of(parts),
                teller_id |-> np[4],
                debit |-> clean_amount(Some(np[1])).val,
                kredit |-> clean_amount(Some(np[2])).val,
                saldo |-> clean_amount(Some(np[3])).val] >>

(* the body of extract_transactions' loop: the records one line adds       *)
estatement_line(im, raw) ==
    LET line == Strip(raw)
        parts == SplitWs(line)
        np == numeric_parts(im, FALSE, parts, Len(parts), << >>)
        debit == clean_amount(Some(np[2]))
        credit == clean_amount(Some(np[3]))
        balance == clean_amount(Some(np[4]))
    IN IF line = "" THEN << >>
       ELSE IF ReMatch(AnchorRe(im), line) = << >> THEN << >>
       ELSE IF Len(parts) < 7 THEN << >>
       ELSE IF Len(np) # 4 THEN << >>
       ELSE IF debit.raised \/ credit.raised \/ balance.raised THEN << >>
       ELSE << [tanggal |-> parts[1],
                waktu |-> parts[2],
                deskripsi |-> description_of(parts),
                teller_id |-> np[1],
                debit |-> debit.val,
                kredit |-> credit.val,
                saldo |-> balance.val] >>

RECURSIVE estatement_lines(_, _)
estatement_lines(im, lines) ==
    IF lines = << >> THEN << >>
    ELSE estatement_line(im, Head(lines)) \o estatement_lines(im, Tail(lines))

extract_transactions(im, text) == estatement_lines(im, Split(text, LineSep(im)))

cms_line_teller_first(im, raw) ==
    LET line == Strip(raw)
        parts == SplitWs(line)
        np == numeric_parts(im, TRUE, parts, Len(parts), << >>)
        debet == IF np[2] # "0.00" THEN clean_amount(Some(np[2]))
                 ELSE [raised |-> FALSE, val |-> 0]
        credit == IF np[3] # "0.00" THEN clean_amount(Some(np[3]))
                  ELSE [raised |-> FALSE, val |-> 0]
        ledger == clean_amount(Some(np[4]))
    IN IF line = "" THEN << >>
       ELSE IF ReMatch(AnchorRe(im), line) = << >> THEN << >>
       ELSE IF Len(parts) < 6 THEN << >>
       ELSE IF Len(np) < 4 THEN << >>
       ELSE IF debet.raised \/ credit.raised \/ ledger.raised THEN << >>
       ELSE << [Date |-> parts[1],
                Remark |-> IF Len(parts) - 4 > 2 THEN description_of(parts) ELSE "",
                Debit |-> debet.val,
                Credit |-> credit.val,
                Saldo |-> ledger.val] >>

(* the body of extract_cms_transactions' loop                              *)
cms_line(im, raw) ==
    LET line == Strip(raw)
        parts == SplitWs(line)
        np == numeric_parts(im, TRUE, parts, Len(parts), << >>)
        debet == IF np[1] # "0.00" THEN clean_amount(Some(np[1]))
                 ELSE [raised |-> FALSE, val |-> 0]
        credit == IF np[2] # "0.00" THEN clean_amount(Some(np[2]))
                  ELSE [raised |-> FALSE, val |-> 0]
        ledger == clean_amount(Some(np[3]))
    IN IF line = "" THEN << >>
       ELSE IF ReMatch(AnchorRe(im), line) = << >> THEN << >>
       ELSE IF Len(parts) < 6 THEN << >>
       ELSE IF Len(np) < 4 THEN << >>
       ELSE IF debet.raised \/ credit.raised \/ ledger.raised THEN << >>
       ELSE << [Date |-> parts[1],
                Remark |-> IF Len(parts) - 4 > 2 THEN description_of(parts) ELSE "",
                Debit |-> debet.val,
                Credit |-> credit.val,
                Saldo |-> ledger.val] >>

RECURSIVE cms_lines(_, _)
cms_lines(im, lines) ==
    IF lines = << >> THEN << >>
    ELSE cms_line(im, Head(lines)) \o cms_lines(im, Tail(lines))

extract_cms_transactions(im, text) == cms_lines(im, Split(text, LineSep(im)))

-----------------------------------------------------------------------------
(* extract_partner_name_bri                                                *)

(* re.sub(p, '', s): every non-empty match, left to right, is removed      *)
RECURSIVE ReSubFrom(_, _, _)
ReSubFrom(p, s, j) ==
    IF j > Len(s) THEN ""
    ELSE LET r == ReM(p, 1, s, j)
         IN IF r # << >> /\ r[Len(r)] > j
            THEN ReSubFrom(p, s, r[Len(r)])
            ELSE Ch(s, j) \o ReSubFrom(p, s, j + 1)

ReSub(p, s) == ReSubFrom(p, s, 1)

(* re.sub(p, repl, s) for a pattern that matches no empty string           *)
RECURSIVE ReSubWith(_, _, _, _)
ReSubWith(p, repl, s, j) ==
    IF j > Len(s) THEN ""
    ELSE LET r == ReM(p, 1, s, j)
         IN IF r # << >> /\ r[Len(r)] > j
            THEN repl \o ReSubWith(p, repl, s, r[Len(r)])
            ELSE Ch(s, j) \o ReSubWith(p, repl, s, j + 1)

RECURSIVE KeepChars(_, _)
KeepChars(s, cs) ==
    IF s = "" THEN ""
    ELSE (IF Ch(s, 1) \in cs THEN Ch(s, 1) ELSE "") \o KeepChars(Tail(s), cs)

AnyChar(lo) == RepNot({}, lo, -1)
NotNewline(lo) == RepNot({"\n"}, lo, -1)
Ws1 == Rep(Whitespace, 1, -1)
Digits1 == Rep(Digits, 1, -1)

(* the list skip_keywords: "Fee" in bri_streamlit_app.py, "FEE" in app.py  *)
skip_keywords(im) ==
    << "BIAYA", "ADM", "BUNGA", "PAJAK", "KLIRING", "TARIK TUNAI",
       "SETORAN", "BI-FAST", "BPJS", "TAX", "INTEREST",
       IF im = "app" THEN "FEE" ELSE "Fee",
       "SINGLE CN", "POLLING", "REWARD", "CLAIM", "BPJS TK", "BPJS KESEHATAN" >>

(* any(keyword in description.upper() for keyword in skip_keywords)        *)
is_skipped(im, description) ==
    \E i \in 1..Len(skip_keywords(im)) :
        Contains(Upper(description), skip_keywords(im)[i])

(* [word for word in s.split() if word.isalpha() and len(word) >= 2]       *)
alpha_words(s) ==
    LET Keep(w) == IsAlpha(w) /\ Len(w) >= 2
    IN SelectSeq(SplitWs(s), Keep)

FirstN(ws, n) == SubSeq(ws, 1, IF Len(ws) < n THEN Len(ws) ELSE n)

(* [line.strip() for line in cleaned.split('\n') if line.strip()]          *)
stripped_lines(im, cleaned) ==
    LET NonBlank(l) == Strip(l) # ""
        kept == SelectSeq(Split(cleaned, LineSep(im)), NonBlank)
    IN [i \in 1..Len(kept) |-> Strip(kept[i])]

(* r'BM\d+', r'^BM\d+\s+\d+\s+\d+', r'BM\d+\s+\d+\s+\d+\s+(.+)'            *)
BmRe(im) ==
    IF im = "app" THEN << Lit("BM\\"), Rep({"d"}, 1, -1) >>
    ELSE << Lit("BM"), Digits1 >>

BmLineRe(im) ==
    IF im = "app"
    THEN << Lit("BM\\"), Rep({"d"}, 1, -1), Lit("\\"), Rep({"s"}, 1, -1),
            Lit("\\"), Rep({"d"}, 1, -1), Lit("\\"), Rep({"s"}, 1, -1),
            Lit("\\"), Rep({"d"}, 1, -1) >>
    ELSE << Lit("BM"), Digits1, Ws1, Digits1, Ws1, Digits1 >>

BmTailRe(im) ==
    IF im = "app"
    THEN BmLineRe(im) \o << Lit("\\"), Rep({"s"}, 1, -1), NotNewline(1) >>
    ELSE BmLineRe(im) \o << Ws1, NotNewline(1) >>

(* the for loop of the BM branch over lines i.., esb_found carried along   *)
RECURSIVE bm_company_words(_, _, _, _)
bm_company_words(im, lines, i, esb_found) ==
    IF i > Len(lines) THEN << >>
    ELSE LET line == lines[i]
             bm_match == ReSearch(BmTailRe(im), line)
         IN IF StartsWith(line, "ESB:")
            THEN bm_company_words(im, lines, i + 1, TRUE)
            ELSE (IF ReMatch(BmLineRe(im), line) # << >>
                  THEN (IF bm_match # << >>
                        THEN alpha_words(Strip(Group(line, bm_match, Len(bm_match) - 1)))
                        ELSE << >>)
                  ELSE (IF ~esb_found THEN alpha_words(line) ELSE << >>))
                 \o bm_company_words(im, lines, i + 1, esb_found)

(* r'NBMB\s+(.*?)\s+TO\s+(.*?)(?:\n|ESB:|$)', re.IGNORECASE | re.DOTALL    *)
NbmbRe(im) ==
    IF im = "app"
    THEN << LitCI("NBMB\\"), Rep({"s", "S"}, 1, -1), Lazy(AnyChar(0)),
            Lit("\\"), Rep({"s", "S"}, 1, -1), LitCI("TO\\"),
            Rep({"s", "S"}, 1, -1), Lazy(AnyChar(0)),
            Alt(<< LitCI("\\n"), LitCI("ESB:"), Eos >>) >>
    ELSE << LitCI("NBMB"), Ws1, Lazy(AnyChar(0)), Ws1, LitCI("TO"), Ws1,
            Lazy(AnyChar(0)), Alt(<< Lit("\n"), LitCI("ESB:"), Eos >>) >>

NbmbSenderItem(im) == 3
NbmbReceiverItem(im) == IF im = "app" THEN 8 ELSE 7

nbmb_branch(im, cleaned) ==
    LET m == ReSearch(NbmbRe(im), cleaned)
        receiver == Strip(Group(cleaned, m, NbmbReceiverItem(im)))
        sender == Strip(Group(cleaned, m, NbmbSenderItem(im)))
    IN IF m = << >> THEN None
       ELSE Some(IF receiver # "" THEN receiver ELSE sender)

(* r'ESB:.*' with re.DOTALL                                                *)
EsbRe == << Lit("ESB:"), AnyChar(0) >>

(* r'WBNKTRF\w+' with re.IGNORECASE                                        *)
WbnkRe(im) ==
    IF im = "app" THEN << LitCI("WBNKTRF\\"), Rep({"w", "W"}, 1, -1) >>
    ELSE << LitCI("WBNKTRF"), Rep(WordChars, 1, -1) >>

wbnktrf_branch(im, cleaned) ==
    LET words == alpha_words(ReSub(EsbRe, ReSub(WbnkRe(im), cleaned)))
    IN IF words # << >> THEN Some(Join(words, " ")) ELSE None

(* r'BFST\d+' with re.IGNORECASE, r'\d{8,}'                                *)
BfstRe(im) ==
    IF im = "app" THEN << LitCI("BFST\\"), Rep({"d", "D"}, 1, -1) >>
    ELSE << LitCI("BFST"), Digits1 >>

LongNumberRe(im) ==
    IF im = "app" THEN << Lit("\\"), Rep({"d"}, 8, -1) >>
    ELSE << Rep(Digits, 8, -1) >>

(* for name in names: the first one with three or more letters and spaces  *)
RECURSIVE bfst_first_name(_, _)
bfst_first_name(names, i) ==
    IF i > Len(names) THEN None
    ELSE LET clean_name == Strip(KeepChars(names[i], Letters \cup Whitespace))
         IN IF clean_name # "" /\ Len(clean_name) >= 3 THEN Some(clean_name)
            ELSE bfst_first_name(names, i + 1)

bfst_branch(im, cleaned) ==
    LET content == ReSub(LongNumberRe(im), ReSub(EsbRe, ReSub(BfstRe(im), cleaned)))
        words == alpha_words(content)
    IN IF Contains(content, ":") THEN bfst_first_name(Split(content, ":"), 1)
       ELSE IF words # << >> THEN Some(Join(words, " "))
       ELSE None

BankNames == {"BCA", "BNI", "MANDIRI", "DANAMON"}

(* r'(.*?)(?:-BANK|-BCA|-BNI|-MANDIRI|-DANAMON)', IGNORECASE | DOTALL      *)
BankRe ==
    << Lazy(AnyChar(0)),
       Alt(<< LitCI("-BANK"), LitCI("-BCA"), LitCI("-BNI"),
              LitCI("-MANDIRI"), LitCI("-DANAMON") >>) >>

(* re.sub(r'^(PT\s+)?', '', company_part, flags=re.IGNORECASE)             *)
PtRe(im) ==
    IF im = "app" THEN << LitCI("PT\\"), Rep({"s", "S"}, 1, -1) >>
    ELSE << LitCI("PT"), Ws1 >>

drop_pt_prefix(im, company_part) ==
    LET m == ReMatch(PtRe(im), company_part)
    IN IF m = << >> THEN company_part
       ELSE SubSeq(company_part, m[Len(m)], Len(company_part))

bank_branch(im, cleaned) ==
    LET m == ReSearch(BankRe, cleaned)
        words == alpha_words(drop_pt_prefix(im, Strip(Group(cleaned, m, 1))))
    IN IF m = << >> THEN None
       ELSE IF words # << >> THEN Some(Join(words, " "))
       ELSE None

ibiz_branch(cleaned) ==
    LET parts == Split(cleaned, " TO ")
        receiver_part == Strip(Split(parts[2], "ESB:")[1])
        words == alpha_words(receiver_part)
    IN IF ~Contains(Upper(cleaned), " TO ") THEN None
       ELSE IF Len(parts) <= 1 THEN None
       ELSE IF words # << >> THEN Some(Join(FirstN(words, 4), " "))
       ELSE None

(* r'\b\d{7,}\b' and r'\b[A-Z]{2,}\d+[A-Z]*\b'                             *)
LongWordNumberRe(im) ==
    IF im = "app" THEN << Lit("\\b\\"), Rep({"d"}, 7, -1), Lit("\\b") >>
    ELSE << WordB, Rep(Digits, 7, -1), WordB >>

CodeRe(im) ==
    IF im = "app"
    THEN << Lit("\\b"), Rep(UpperLetters, 2, -1), Lit("\\"), Rep({"d"}, 1, -1),
            Rep(UpperLetters, 0, -1), Lit("\\b") >>
    ELSE << WordB, Rep(UpperLetters, 2, -1), Digits1,
            Rep(UpperLetters, 0, -1), WordB >>

StopWords == {"THE", "AND", "OR", "TO", "FROM", "FOR", "WITH"}

(* the fallback arm without the test len(filtered_words) >= 2              *)
general_fallback_single_word(im, cleaned) ==
    LET general_clean == ReSub(CodeRe(im),
                               ReSub(LongWordNumberRe(im), ReSub(EsbRe, cleaned)))
        NotStop(w) == Upper(w) \notin StopWords
        filtered_words == SelectSeq(alpha_words(general_clean), NotStop)
    IN IF Len(filtered_words) >= 1
       THEN Some(Join(FirstN(filtered_words, 4), " "))
       ELSE None

general_fallback(im, cleaned) ==
    LET general_clean == ReSub(CodeRe(im),
                               ReSub(LongWordNumberRe(im), ReSub(EsbRe, cleaned)))
        NotStop(w) == Upper(w) \notin StopWords
        filtered_words == SelectSeq(alpha_words(general_clean), NotStop)
    IN IF Len(filtered_words) >= 2
       THEN Some(Join(FirstN(filtered_words, 4), " "))
       ELSE None

fixed_labels_case_sensitive(im, cleaned) ==
    IF Contains(cleaned, "PAYROLL") THEN Some("PAYROLL")
    ELSE IF Contains(cleaned, "SETOR") /\ Contains(cleaned, "PENJUALAN")
    THEN Some("PENJUALAN INTERNAL")
    ELSE general_fallback(im, cleaned)

(* the last three arms of the elif chain: payroll, sales deposit, fallback *)
fixed_labels(im, cleaned) ==
    IF Contains(Upper(cleaned), "PAYROLL") THEN Some("PAYROLL")
    ELSE IF Contains(Upper(cleaned), "SETOR") /\ Contains(Upper(cleaned), "PENJUALAN")
    THEN Some("PENJUALAN INTERNAL")
    ELSE general_fallback(im, cleaned)

(* the if/elif chain that starts at the NBMB test                          *)
grammar_chain(im, cleaned) ==
    LET up == Upper(cleaned)
    IN IF Contains(up, "NBMB") THEN nbmb_branch(im, cleaned)
       ELSE IF Contains(up, "WBNKTRF") THEN wbnktrf_branch(im, cleaned)
       ELSE IF Contains(up, "BFST") THEN bfst_branch(im, cleaned)
       ELSE IF \E bank \in BankNames : Contains(up, bank) THEN bank_branch(im, cleaned)
       ELSE IF Contains(up, "IBIZ") THEN ibiz_branch(cleaned)
       ELSE fixed_labels(im, cleaned)

(* extract_partner_name_bri(description), description a str or None        *)
extract_partner_name_bri(im, description) ==
    IF description = None \/ description[1] = "" THEN None
    ELSE IF is_skipped(im, description[1]) THEN None
    ELSE LET cleaned == Strip(description[1])
             company_words ==
                 bm_company_words(im, stripped_lines(im, cleaned), 1, FALSE)
         IN IF ReSearch(BmRe(im), cleaned) # << >> /\ company_words # << >>
            THEN Some(Join(company_words, " "))
            ELSE grammar_chain(im, cleaned)

-----------------------------------------------------------------------------
(* Partner analysis.  A DataFrame is the sequence of its rows, a row a     *)
(* record over the column names, pd.DataFrame() the empty sequence; a      *)
(* partner_name cell is None or Some(name).                                *)

Columns(df) == IF df = << >> THEN {} ELSE DOMAIN df[1]

detect_bri_format(transactions_df) ==
    IF "Remark" \in Columns(transactions_df) THEN "CMS"
    ELSE IF "deskripsi" \in Columns(transactions_df) THEN "E_STATEMENT"
    ELSE "UNKNOWN"

(* df[col].sum(), in hundredths for amount columns                         *)
RECURSIVE ColumnSum(_, _)
ColumnSum(df, col) ==
    IF df = << >> THEN 0 ELSE df[1][col] + ColumnSum(Tail(df), col)

(* Series.unique(): the distinct values in order of first appearance       *)
RECURSIVE unique(_)
unique(xs) ==
    IF xs = << >> THEN << >>
    ELSE LET u == unique(SubSeq(xs, 1, Len(xs) - 1))
             last == xs[Len(xs)]
         IN IF \E i \in 1..Len(u) : u[i] = last THEN u ELSE Append(u, last)

(* df.sort_values(by, ascending=False): the default sort kind gives no     *)
(* order among rows of equal key, so every descending arrangement of the   *)
(* rows is a possible result; the operator is the set of them.             *)
sort_values_descending(df, by) ==
    LET n == Len(df)
        orders == {p \in [1..n -> 1..n] :
                     /\ \A i, j \in 1..n : i # j => p[i] # p[j]
                     /\ \A i \in 1..(n - 1) : df[p[i]][by] >= df[p[i + 1]][by]}
    IN {[i \in 1..n |-> df[p[i]]] : p \in orders}

(* df[df['partner_name'].notna()]                                          *)
attributed(df) ==
    LET NotNa(r) == r.partner_name # None
    IN SelectSeq(df, NotNa)

partner_data_first_only(partner_transactions, partner) ==
    LET Mine(r) == r.partner_name = partner
    IN FirstN(SelectSeq(partner_transactions, Mine), 1)

(* partner_transactions[partner_transactions['partner_name'] == partner]   *)
partner_data(partner_transactions, partner) ==
    LET Mine(r) == r.partner_name = partner
    IN SelectSeq(partner_transactions, Mine)

(* summary_data with the Total_Volume column added                         *)
summary_rows(partner_transactions, debit_col, credit_col) ==
    LET partners == unique([i \in 1..Len(partner_transactions) |->
                               partner_transactions[i].partner_name])
        HasCredit(r) == r[credit_col] > 0
        HasDebit(r) == r[debit_col] > 0
        Row(partner) ==
            LET p == partner_data(partner_transactions, partner)
            IN [Partner |-> partner[1],
                Total_Credit |-> ColumnSum(p, credit_col),
                Total_Debit |-> ColumnSum(p, debit_col),
                Credit_Count |-> Len(SelectSeq(p, HasCredit)),
                Debit_Count |-> Len(SelectSeq(p, HasDebit)),
                Total_Transactions |-> Len(p),
                Total_Volume |-> ColumnSum(p, credit_col) + ColumnSum(p, debit_col)]
    IN [i \in 1..Len(partners) |-> Row(partners[i])]

(* df.drop(col, axis=1)                                                    *)
drop(df, col) ==
    [i \in 1..Len(df) |-> [c \in (DOMAIN df[i]) \ {col} |-> df[i][c]]]

(* create_partner_summary_table(partner_df): the set of tables it can      *)
(* return                                                                  *)
create_partner_summary_table(partner_df) ==
    LET partner_transactions == attributed(partner_df)
        cols == Columns(partner_df)
        Sorted(debit_col, credit_col) ==
            {drop(t, "Total_Volume") :
                t \in sort_values_descending(
                          summary_rows(partner_transactions, debit_col, credit_col),
                          "Total_Volume")}
    IN IF partner_df = << >> \/ "partner_name" \notin cols THEN {<< >>}
       ELSE IF partner_transactions = << >> THEN {<< >>}
       ELSE IF {"Debit", "Credit"} \subseteq cols THEN Sorted("Debit", "Credit")
       ELSE IF {"debit", "kredit"} \subseteq cols THEN Sorted("debit", "kredit")
       ELSE {<< >>}

(* the aggregation keyed by the partner alone                              *)
groupby_partner_only(partner_transactions, debit_col, credit_col) ==
    LET Key(r) == r.partner_name
        keys == unique([i \in 1..Len(partner_transactions) |->
                           Key(partner_transactions[i])])
        Group_(key) ==
            LET InGroup(r) == Key(r) = key
                g == SelectSeq(partner_transactions, InGroup)
            IN (debit_col :> ColumnSum(g, debit_col))
               @@ (credit_col :> ColumnSum(g, credit_col))
               @@ [partner_name |-> key, transaction_type |-> g[1].transaction_type,
                   amount |-> ColumnSum(g, "amount"),
                   transaction_count |-> Len(g)]
    IN [i \in 1..Len(keys) |-> Group_(keys[i])]

(* groupby(['partner_name', 'transaction_type']).agg(...).reset_index()    *)
groupby_partner_type(partner_transactions, debit_col, credit_col) ==
    LET Key(r) == <<r.partner_name, r.transaction_type>>
        keys == unique([i \in 1..Len(partner_transactions) |->
                           Key(partner_transactions[i])])
        Group_(key) ==
            LET InGroup(r) == Key(r) = key
                g == SelectSeq(partner_transactions, InGroup)
            IN (debit_col :> ColumnSum(g, debit_col))
               @@ (credit_col :> ColumnSum(g, credit_col))
               @@ [partner_name |-> key[1], transaction_type |-> key[2],
                   amount |-> ColumnSum(g, "amount"),
                   transaction_count |-> Len(g)]
    IN [i \in 1..Len(keys) |-> Group_(keys[i])]

(* the three columns with the credit side tested before the debit side    *)
with_partner_columns_credit_first(im, row, desc_col, debit_col, credit_col) ==
    row @@ [partner_name |-> extract_partner_name_bri(im, Some(row[desc_col])),
            transaction_type |->
                IF row[credit_col] > 0 THEN "CREDIT"
                ELSE IF row[debit_col] > 0 THEN "DEBIT"
                ELSE "UNKNOWN",
            amount |-> row[debit_col] + row[credit_col]]

(* the columns partner_name, transaction_type and amount added to a row    *)
with_partner_columns(im, row, desc_col, debit_col, credit_col) ==
    row @@ [partner_name |-> extract_partner_name_bri(im, Some(row[desc_col])),
            transaction_type |->
                IF row[debit_col] > 0 THEN "DEBIT"
                ELSE IF row[credit_col] > 0 THEN "CREDIT"
                ELSE "UNKNOWN",
            amount |-> row[debit_col] + row[credit_col]]

(* transactions_df as a call with the columns added in place would leave it *)
transactions_df_after_no_copy(im, transactions_df) ==
    IF transactions_df = << >> THEN transactions_df
    ELSE IF detect_bri_format(transactions_df) = "CMS"
    THEN [i \in 1..Len(transactions_df) |->
             with_partner_columns(im, transactions_df[i], "Remark", "Debit", "Credit")]
    ELSE IF detect_bri_format(transactions_df) = "E_STATEMENT"
    THEN [i \in 1..Len(transactions_df) |->
             with_partner_columns(im, transactions_df[i], "deskripsi", "debit", "kredit")]
    ELSE transactions_df

(* the caller's transactions_df once analyze_bri_partners_unified has      *)
(* returned: df = transactions_df.copy(), and the three columns, the       *)
(* filter and the groupby all work on the copy                             *)
transactions_df_after(im, transactions_df) == transactions_df

(* the part of analyze_bri_partners_unified after the three columns are    *)
(* added: df is transactions_df with them                                  *)
partner_tables(df, debit_col, credit_col) ==
    IF attributed(df) = << >> THEN {<<df, << >> >>}
    ELSE {<<partner_summary, partner_summary_table>> :
             partner_summary \in
                 sort_values_descending(
                     groupby_partner_type(attributed(df), debit_col, credit_col),
                     "amount"),
             partner_summary_table \in create_partner_summary_table(df)}

(* analyze_bri_partners_unified(transactions_df): the set of pairs         *)
(* (partner_summary, partner_summary_table) it can return; df is bound     *)
(* once to transactions_df with the three columns added                    *)
analyze_bri_partners_unified(im, transactions_df) ==
    IF transactions_df = << >> THEN {<<transactions_df, << >> >>}
    ELSE IF detect_bri_format(transactions_df) = "CMS"
    THEN UNION {partner_tables(df, "Debit", "Credit") :
                   df \in {[i \in 1..Len(transactions_df) |->
                              with_partner_columns(im, transactions_df[i],
                                                   "Remark", "Debit", "Credit")]}}
    ELSE IF detect_bri_format(transactions_df) = "E_STATEMENT"
    THEN UNION {partner_tables(df, "debit", "kredit") :
                   df \in {[i \in 1..Len(transactions_df) |->
                              with_partner_columns(im, transactions_df[i],
                                                   "deskripsi", "debit", "kredit")]}}
    ELSE {<<transactions_df, << >> >>}

(* str < str: by code point, the order in which groupby sorts its keys;    *)
(* AsciiOrder lists the characters of the model's descriptions             *)
AsciiOrder ==
    "\t\n ,-./0123456789:ABCDEFGHIJKLMNOPQRSTUVWXYZ\\_abcdefghijklmnopqrstuvwxyz"

RECURSIVE StrLess(_, _)
StrLess(a, b) ==
    IF b = "" THEN FALSE
    ELSE IF a = "" THEN TRUE
    ELSE IF Ch(a, 1) = Ch(b, 1) THEN StrLess(Tail(a), Tail(b))
    ELSE IndexFrom(AsciiOrder, Ch(a, 1), 1) < IndexFrom(AsciiOrder, Ch(b, 1), 1)

(* create_partner_statistics_summary(partner_df): a one-row table, or the  *)
(* empty one.  idxmax takes the first largest total_volume of the groups,  *)
(* which groupby('partner_name') leaves sorted by name.                    *)
create_partner_statistics_summary(partner_df) ==
    LET partner_transactions == attributed(partner_df)
        cols == Columns(partner_df)
        Stats(debit_col, credit_col) ==
            LET HasCredit(r) == r[credit_col] > 0
                HasDebit(r) == r[debit_col] > 0
                names == unique([i \in 1..Len(partner_transactions) |->
                                    partner_transactions[i].partner_name])
                total_volume(name) ==
                    ColumnSum(partner_data(partner_transactions, name), debit_col)
                    + ColumnSum(partner_data(partner_transactions, name), credit_col)
                Before(a, b) ==
                    \/ total_volume(a) > total_volume(b)
                    \/ total_volume(a) = total_volume(b) /\ StrLess(a[1], b[1])
                top == CHOOSE i \in 1..Len(names) :
                          \A j \in 1..Len(names) : j # i => Before(names[i], names[j])
            IN << [No_of_Credit |-> Len(SelectSeq(partner_transactions, HasCredit)),
                   No_of_Debit |-> Len(SelectSeq(partner_transactions, HasDebit)),
                   Total_Credit_Amount |-> ColumnSum(partner_transactions, credit_col),
                   Total_Debit_Amount |-> ColumnSum(partner_transactions, debit_col),
                   Total_Partners |-> Len(names),
                   Top_Partner |-> names[top][1],
                   Top_Partner_Amount |-> total_volume(names[top])] >>
    IN IF partner_df = << >> \/ "partner_name" \notin cols THEN << >>
       ELSE IF partner_transactions = << >> THEN << >>
       ELSE IF {"Debit", "Credit"} \subseteq cols THEN Stats("Debit", "Credit")
       ELSE IF {"debit", "kredit"} \subseteq cols THEN Stats("debit", "kredit")
       ELSE << >>

-----------------------------------------------------------------------------
(* The header parsers                                                      *)

(* \s, \d and \n with a repetition in a pattern of bri_streamlit_app.py;   *)
(* app.py doubles the backslashes inside its raw strings, so there the     *)
(* pattern asks for a backslash followed by the repeated letter, in either *)
(* case under re.IGNORECASE                                                *)
Sp(im, lo) ==
    IF im = "app" THEN << Lit("\\"), Rep({"s", "S"}, lo, -1) >>
    ELSE << Rep(Whitespace, lo, -1) >>

Dg(im, lo, hi) ==
    IF im = "app" THEN << Lit("\\"), Rep({"d", "D"}, lo, hi) >>
    ELSE << Rep(Digits, lo, hi) >>

Nl(im, lo, hi) ==
    IF im = "app" THEN << Lit("\\"), Rep({"n", "N"}, lo, hi) >>
    ELSE << Rep({"\n"}, lo, hi) >>

(* ([\d,\.]+)                                                              *)
AmountGroup(im) ==
    << Mark,
       Rep(IF im = "app" THEN {"\\", "d", "D", ",", "."} ELSE Digits \cup {",", "."},
           1, -1),
       Mark >>

(* the first pattern of the list that is found in text: its index and its  *)
(* match, index 0 when none is found                                       *)
first_match(patterns, text, i) ==
    WhichOf([k \in 1..Len(patterns) |->
               IF k < i THEN << >> ELSE ReSearch(patterns[k], text)])

(* match.group(g) of what first_match found                                *)
group_of(patterns, text, r, g) ==
    IF r.which = 0 THEN None ELSE Some(Capture(patterns[r.which], text, r.m, g))

(* m.group(1) of the first pattern of a list that is found, None when none *)
(* is                                                                      *)
first_group(patterns, text, g) ==
    group_of(patterns, text, first_match(patterns, text, 1), g)

StripSome(v) == IF v = None THEN None ELSE Some(Strip(v[1]))

(* extract_cms_summary: summary_pattern                                    *)
summary_pattern(im) ==
    << LitCI("OPENING") >> \o Sp(im, 1) \o << LitCI("BALANCE") >> \o Sp(im, 1)
    \o << LitCI("TOTAL") >> \o Sp(im, 1) \o << LitCI("DEBET") >> \o Sp(im, 1)
    \o << LitCI("TOTAL") >> \o Sp(im, 1) \o << LitCI("CREDIT") >> \o Sp(im, 1)
    \o << LitCI("CLOSING") >> \o Sp(im, 1) \o << LitCI("BALANCE") >> \o Sp(im, 0)
    \o (IF im = "app" THEN << LitCI("\\n") >> ELSE << Lit("\n") >>) \o Sp(im, 0)
    \o AmountGroup(im) \o Sp(im, 1) \o AmountGroup(im) \o Sp(im, 1)
    \o AmountGroup(im) \o Sp(im, 1) \o AmountGroup(im)

(* the dict of the four amounts of a match of summary_pattern              *)
summary_from_match(p, text, m) ==
    IF m = << >> THEN << >>
    ELSE [k \in {"Saldo Awal", "Saldo Akhir", "Mutasi Debit", "Mutasi Credit"} |->
            clean_amount(Some(Capture(p, text, m,
               CASE k = "Saldo Awal" -> 1 [] k = "Saldo Akhir" -> 4
                 [] k = "Mutasi Debit" -> 2 [] k = "Mutasi Credit" -> 3))).val]

(* extract_cms_summary(text): the empty dict << >> or the four amounts     *)
extract_cms_summary(im, text) ==
    summary_from_match(summary_pattern(im), text, ReSearch(summary_pattern(im), text))

(* extract_cms_account_info: account_patterns, name_patterns and           *)
(* period_patterns, all searched with re.IGNORECASE | re.DOTALL            *)
AccountNoHead(im) == << LitCI("Account") >> \o Sp(im, 1) \o << LitCI("No") >> \o Sp(im, 0)

DashedNumber(im) ==
    << Mark >> \o Dg(im, 4, 4) \o << Lit("-") >> \o Dg(im, 2, 2) \o << Lit("-") >>
    \o Dg(im, 6, 6) \o << Lit("-") >> \o Dg(im, 2, 2) \o << Lit("-") >>
    \o Dg(im, 1, 1) \o << Mark >>

OptColon(im) == << Rep({":"}, 0, 1) >> \o Sp(im, 0)

account_patterns(im) ==
    << AccountNoHead(im) \o OptColon(im) \o DashedNumber(im),
       AccountNoHead(im) \o OptColon(im) \o << Mark >> \o Dg(im, 1, -1) \o << Mark >>,
       AccountNoHead(im) \o Nl(im, 0, -1) \o Sp(im, 0) \o OptColon(im) \o DashedNumber(im),
       AccountNoHead(im) \o Nl(im, 0, -1) \o Sp(im, 0)
          \o << Mark >> \o Dg(im, 1, -1) \o << Mark >> >>

(* [A-Z\s&\.] under re.IGNORECASE; in app.py the class holds the backslash *)
(* and the letter s instead of the whitespace characters                   *)
NameClass(im) ==
    Letters \cup {"&", "."} \cup (IF im = "app" THEN {"\\"} ELSE Whitespace)

LetterSpaceClass(im) == Letters \cup (IF im = "app" THEN {"\\"} ELSE Whitespace)

AccountNameHead(im) == << LitCI("Account") >> \o Sp(im, 1) \o << LitCI("Name") >>

LazyName(im) ==
    << Mark, Rep(Letters, 1, 1), Lazy(Rep(NameClass(im), 1, -1)), Mark >>

name_patterns(im) ==
    << AccountNameHead(im) \o Sp(im, 0) \o OptColon(im) \o LazyName(im)
          \o << Look(<< Sp(im, 0) \o << LitCI("Today") >> \o Sp(im, 0) \o << LitCI("Hold") >>,
                        Sp(im, 0) \o << LitCI("Period") >>,
                        Sp(im, 0) \o << LitCI("Account") >> \o Sp(im, 0) \o << LitCI("Status") >> >>) >>,
       AccountNameHead(im) \o Sp(im, 0) \o Nl(im, 0, -1) \o Sp(im, 0) \o OptColon(im)
          \o LazyName(im)
          \o << Look(<< Sp(im, 0) \o << LitCI("Today") >>,
                        Sp(im, 0) \o << LitCI("Period") >>,
                        Sp(im, 0) \o << LitCI("Account") >> \o Sp(im, 0) \o << LitCI("Status") >> >>) >>,
       AccountNameHead(im) \o Sp(im, 1) \o LazyName(im)
          \o << Look(<< Sp(im, 0) \o << LitCI("Today") >>,
                        Sp(im, 0) \o << LitCI("Period") >>,
                        Sp(im, 0) \o << LitCI("Account") >> \o Sp(im, 0) \o << LitCI("Status") >> >>) >>,
       AccountNameHead(im) \o Sp(im, 0) \o OptColon(im)
          \o << Mark, LitCI("PT") >> \o Sp(im, 1)
          \o << Rep(LetterSpaceClass(im), 1, -1), Mark >>,
       AccountNameHead(im) \o Sp(im, 0) \o OptColon(im)
          \o << Mark, Rep(Letters, 1, 1), Rep(NameClass(im), 1, -1), Mark >>,
       AccountNameHead(im) \o Sp(im, 0) \o OptColon(im)
          \o << Mark, Lazy(Rep(NameClass(im), 1, -1)), Mark >>
          \o << Look(<< Sp(im, 0) \o (IF im = "app" THEN << LitCI("\\n") >> ELSE << Lit("\n") >>),
                        Sp(im, 0) \o << LitCI("Today") >>,
                        Sp(im, 0) \o << LitCI("Period") >>,
                        Sp(im, 0) \o << LitCI("Account") >> >>) >> >>

(* (\d{2}/\d{2}/\d{4})\s*-\s*(\d{2}/\d{2}/\d{4})                           *)
LongDate(im) ==
    << Mark >> \o Dg(im, 2, 2) \o << Lit("/") >> \o Dg(im, 2, 2) \o << Lit("/") >>
    \o Dg(im, 4, 4) \o << Mark >>

LongDateRange(im) ==
    LongDate(im) \o Sp(im, 0) \o << Lit("-") >> \o Sp(im, 0) \o LongDate(im)

period_patterns(im) ==
    << << LitCI("Period") >> \o Sp(im, 0) \o OptColon(im) \o LongDateRange(im),
       << LitCI("Period") >> \o Sp(im, 0) \o Nl(im, 0, -1) \o Sp(im, 0) \o OptColon(im)
          \o LongDateRange(im) >>

(* any() over the values of the dict with the Bank label left out          *)
any_values_but_bank(info) ==
    \E k \in (DOMAIN info) \ {"Bank"} : info[k] # None /\ info[k][1] # ""

(* any(account_info.values()): some value is neither None nor ''           *)
any_values(info) == \E k \in DOMAIN info : info[k] # None /\ info[k][1] # ""

(* the body of the line-by-line scan of extract_cms_account_info for one   *)
(* stripped line                                                           *)
scan_line(im, info, line) ==
    LET parts == Split(line, ":")
    IN IF Contains(line, "Account No") /\ Contains(line, ":")
       THEN [info EXCEPT !["Account Number"] = Some(Strip(parts[2]))]
       ELSE IF Contains(line, "Account Name") /\ Contains(line, ":")
       THEN [info EXCEPT !["Account Name"] = Some(Strip(parts[2]))]
       ELSE IF Contains(line, "Period") /\ Contains(line, ":")
       THEN LET pm == ReSearch(LongDateRange(im), parts[2])
            IN IF pm = << >> THEN info
               ELSE [info EXCEPT
                       !["Start Period"] = Some(Capture(LongDateRange(im), parts[2], pm, 1)),
                       !["End Period"] = Some(Capture(LongDateRange(im), parts[2], pm, 2))]
       ELSE info

RECURSIVE scan_lines(_, _, _)
scan_lines(im, info, lines) ==
    IF lines = << >> THEN info
    ELSE scan_lines(im, scan_line(im, info, Strip(Head(lines))), Tail(lines))

(* the dict the three template lists fill                                  *)
account_info_from_templates(im, text) ==
    [k \in {"Bank", "Account Name", "Account Number", "Start Period", "End Period"} |->
       CASE k = "Bank" -> Some("BRI")
         [] k = "Account Number" -> StripSome(first_group(account_patterns(im), text, 1))
         [] k = "Account Name" -> StripSome(first_group(name_patterns(im), text, 1))
         [] k = "Start Period" -> first_group(period_patterns(im), text, 1)
         [] k = "End Period" -> first_group(period_patterns(im), text, 2)]

(* if not any(account_info.values()): the line-by-line scan                *)
scanned_when_empty(im, text, info) ==
    IF ~any_values(info) THEN scan_lines(im, info, Split(text, LineSep(im))) ELSE info

(* extract_cms_account_info(text).  bri_streamlit_app.py starts with a     *)
(* call of clean_statement_lines, a name that no module defines or         *)
(* imports: NameError on every call.  app.py runs the line-by-line scan    *)
(* when no value of the dict is truthy.                                    *)
extract_cms_account_info(im, text) ==
    IF im # "app" THEN [raised |-> TRUE]
    ELSE [raised |-> FALSE,
          val |-> scanned_when_empty(im, text, account_info_from_templates(im, text))]

(* extract_personal_info.  '\n' and '\.' in a pattern: app.py's doubled    *)
(* backslash makes them a backslash followed by the letter n, and a        *)
(* backslash followed by any character (any but a newline without          *)
(* re.DOTALL)                                                              *)
NL(im) == IF im = "app" THEN << LitCI("\\n") >> ELSE << Lit("\n") >>

Dot(im, dotall) ==
    IF im = "app"
    THEN << Lit("\\"), RepNot(IF dotall THEN {} ELSE {"\n"}, 1, 1) >>
    ELSE << Lit(".") >>

(* Kepada\s+Yth\.\s*/\s*To\s*:\s*\n\s*                                     *)
KepadaHead(im, dotall) ==
    << LitCI("Kepada") >> \o Sp(im, 1) \o << LitCI("Yth") >> \o Dot(im, dotall)
    \o Sp(im, 0) \o << Lit("/") >> \o Sp(im, 0) \o << LitCI("To") >> \o Sp(im, 0)
    \o << Lit(":") >> \o Sp(im, 0) \o NL(im) \o Sp(im, 0)

(* [^\n]: in app.py every character but the backslash and the letter n     *)
NotNewlineClass(im) == IF im = "app" THEN {"\\", "n", "N"} ELSE {"\n"}

NoRekening(im, dotall) ==
    << LitCI("No") >> \o Dot(im, dotall) \o Sp(im, 0) \o << LitCI("Rekening") >>

nama_patterns(im) ==
    << KepadaHead(im, TRUE)
          \o << Rep(Letters, 1, 1), Lazy(Rep(LetterSpaceClass(im), 0, -1)) >> \o NL(im)
          \o Sp(im, 0) \o << Mark, Lazy(AnyChar(0)), Mark >>
          \o << Look(<< NL(im) \o NL(im),
                        NL(im) \o NoRekening(im, TRUE),
                        NL(im) \o << LitCI("Tanggal") >> \o Sp(im, 1) \o << LitCI("Laporan") >>,
                        NL(im) \o << LitCI("Periode") >> \o Sp(im, 1) \o << LitCI("Transaksi") >>,
                        NL(im) \o << LitCI("No") >> \o Sp(im, 1) \o << LitCI("Rekening") >> >>) >>,
       KepadaHead(im, TRUE)
          \o << Mark, RepNot(NotNewlineClass(im), 1, -1), Mark >>
          \o << LazyStar(NL(im) \o << Lazy(RepNot(NotNewlineClass(im), 0, -1)) >>) >>
          \o << Look(<< NL(im) \o Sp(im, 0) \o NoRekening(im, TRUE),
                        NL(im) \o Sp(im, 0) \o << LitCI("Tanggal") >> \o Sp(im, 1)
                           \o << LitCI("Laporan") >>,
                        NL(im) \o Sp(im, 0) \o << LitCI("Account") >> \o Sp(im, 1)
                           \o << LitCI("No") >> >>) >>,
       KepadaHead(im, TRUE)
          \o << Mark, Lazy(AnyChar(1)), Mark >>
          \o << Look(<< NL(im) \o Sp(im, 0) \o NoRekening(im, TRUE) >>) >> >>

(* r'\d{2}/\d{2}/\d{2,4}' without flags, and (\d{2}/\d{2}/\d{2,4}) under   *)
(* re.IGNORECASE                                                           *)
ShortDateRe(im) ==
    IF im = "app"
    THEN << Lit("\\"), Rep({"d"}, 2, 2), Lit("/"), Lit("\\"), Rep({"d"}, 2, 2), Lit("/"),
            Lit("\\"), Rep({"d"}, 2, 4) >>
    ELSE << Rep(Digits, 2, 2), Lit("/"), Rep(Digits, 2, 2), Lit("/"), Rep(Digits, 2, 4) >>

ShortDate(im) ==
    << Mark >> \o Dg(im, 2, 2) \o << Lit("/") >> \o Dg(im, 2, 2) \o << Lit("/") >>
    \o Dg(im, 2, 4) \o << Mark >>

(* r'\s+' without flags                                                    *)
SpacesRe(im) ==
    IF im = "app" THEN << Lit("\\"), Rep({"s"}, 1, -1) >> ELSE << Rep(Whitespace, 1, -1) >>

(* the lines of the matched block: the first is the name, the others, but  *)
(* those that start with a date or contain 'Periode', are the address      *)
name_and_address(im, extracted_text) ==
    LET lines == stripped_lines(im, Strip(extracted_text))
        IsAddress(line) == ReMatch(ShortDateRe(im), line) = << >> /\ ~Contains(line, "Periode")
        alamat_filtered == SelectSeq(Tail(lines), IsAddress)
    IN IF lines = << >> THEN [name |-> None, address |-> None]
       ELSE [name |-> Some(lines[1]),
             address |-> IF Len(lines) > 1 /\ alamat_filtered # << >>
                         THEN Some(ReSubWith(SpacesRe(im), " ", Join(alamat_filtered, " "), 1))
                         ELSE None]

(* Kepada\s+Yth\.\s*/\s*To\s*:\s*\n\s*([A-Z][A-Z\s]+), re.IGNORECASE only  *)
simple_nama_pattern(im) ==
    KepadaHead(im, FALSE)
    \o << Mark, Rep(Letters, 1, 1), Rep(LetterSpaceClass(im), 1, -1), Mark >>

(* [:\s]* and [,:]*                                                        *)
ColonSpaces(im) ==
    << Rep({":"} \cup (IF im = "app" THEN {"\\", "s", "S"} ELSE Whitespace), 0, -1) >>

CommaColons == << Rep({",", ":"}, 0, -1) >>

tanggal_patterns(im) ==
    << << LitCI("Tanggal") >> \o Sp(im, 1) \o << LitCI("Laporan") >> \o Sp(im, 0)
          \o ColonSpaces(im) \o ShortDate(im),
       << LitCI("Statement") >> \o Sp(im, 1) \o << LitCI("Date") >> \o Sp(im, 0)
          \o ColonSpaces(im) \o ShortDate(im) >>

ShortDateRange(im) ==
    ShortDate(im) \o Sp(im, 0) \o << Lit("-") >> \o Sp(im, 0) \o ShortDate(im)

periode_patterns(im) ==
    << << LitCI("Periode") >> \o Sp(im, 1) \o << LitCI("Transaksi") >> \o Sp(im, 0)
          \o ColonSpaces(im) \o ShortDateRange(im),
       << LitCI("Transaction") >> \o Sp(im, 1) \o << LitCI("Period") >> \o Sp(im, 0)
          \o ColonSpaces(im) \o ShortDateRange(im) >>

NumberGroup(im) == << Mark >> \o Dg(im, 1, -1) \o << Mark >>

rekening_patterns(im) ==
    << NoRekening(im, FALSE) \o Sp(im, 0) \o Nl(im, 0, -1) \o << LitCI("Account") >>
          \o Sp(im, 0) \o << LitCI("No") >> \o Sp(im, 0) \o CommaColons \o Sp(im, 0)
          \o NumberGroup(im),
       NoRekening(im, FALSE) \o Sp(im, 0) \o ColonSpaces(im) \o NumberGroup(im),
       << LitCI("Account") >> \o Sp(im, 0) \o << LitCI("No") >> \o Sp(im, 0)
          \o ColonSpaces(im) \o NumberGroup(im) >>

(* the one entry of produk_patterns, as the two patterns its leading       *)
(* (?:Nama\s+Produk|Product\s+Name) gives                                  *)
ProdukTail(im) ==
    Sp(im, 0) \o CommaColons \o Sp(im, 0) \o << Mark, Lazy(AnyChar(0)), Mark >>
    \o << Look(<< Sp(im, 0) \o << LitCI("Unit") >> \o Sp(im, 0) \o << LitCI("Kerja") >>,
                  Sp(im, 0) \o << LitCI("Business") >> \o Sp(im, 0) \o << LitCI("Unit") >>,
                  Sp(im, 0) \o << LitCI("Valuta") >>,
                  Sp(im, 0) \o << LitCI("Currency") >>,
                  Sp(im, 0) \o << LitCI("Alamat") >> \o Sp(im, 0) \o << LitCI("Unit") >>
                     \o Sp(im, 0) \o << LitCI("Kerja") >>,
                  Sp(im, 0) \o NL(im),
                  Sp(im, 0) \o << Eos >> >>) >>

produk_patterns(im) ==
    << << << LitCI("Nama") >> \o Sp(im, 1) \o << LitCI("Produk") >> \o ProdukTail(im),
          << LitCI("Product") >> \o Sp(im, 1) \o << LitCI("Name") >> \o ProdukTail(im) >> >>

LettersGroup == << Mark, Rep(Letters, 1, -1), Mark >>

valuta_patterns(im) ==
    << << LitCI("Valuta") >> \o Sp(im, 0) \o Nl(im, 0, -1) \o << LitCI("Currency") >>
          \o Sp(im, 0) \o CommaColons \o Sp(im, 0) \o LettersGroup,
       << LitCI("Valuta") >> \o Sp(im, 0) \o ColonSpaces(im) \o LettersGroup,
       << LitCI("Currency") >> \o Sp(im, 0) \o ColonSpaces(im) \o LettersGroup >>

(* ([A-Z][A-Z\s]*?)                                                        *)
LazyWords(im) ==
    << Mark, Rep(Letters, 1, 1), Lazy(Rep(LetterSpaceClass(im), 0, -1)), Mark >>

(* (?=\s*(?:Alamat\s+Unit|Business\s+Unit\s+Address|\n|$))                 *)
UnitEnd(im) ==
    << Look(<< Sp(im, 0) \o << LitCI("Alamat") >> \o Sp(im, 1) \o << LitCI("Unit") >>,
               Sp(im, 0) \o << LitCI("Business") >> \o Sp(im, 1) \o << LitCI("Unit") >>
                  \o Sp(im, 1) \o << LitCI("Address") >>,
               Sp(im, 0) \o NL(im),
               Sp(im, 0) \o << Eos >> >>) >>

unit_patterns(im) ==
    << << LitCI("Unit") >> \o Sp(im, 1) \o << LitCI("Kerja") >> \o Sp(im, 0)
          \o Nl(im, 0, -1) \o << LitCI("Business") >> \o Sp(im, 1) \o << LitCI("Unit") >>
          \o Sp(im, 0) \o CommaColons \o Sp(im, 0) \o LazyWords(im) \o UnitEnd(im),
       << LitCI("Unit") >> \o Sp(im, 1) \o << LitCI("Kerja") >> \o Sp(im, 0)
          \o ColonSpaces(im) \o LazyWords(im) \o UnitEnd(im),
       << LitCI("Business") >> \o Sp(im, 1) \o << LitCI("Unit") >> \o Sp(im, 0)
          \o ColonSpaces(im) \o LazyWords(im) \o UnitEnd(im) >>

(* alamat_unit_kerja_patterns: each entry as the two patterns its leading  *)
(* (?:Alamat\s+Unit\s+Kerja|Business\s+Unit\s+Address) gives               *)
AlamatHeads(im) ==
    << << LitCI("Alamat") >> \o Sp(im, 1) \o << LitCI("Unit") >> \o Sp(im, 1)
          \o << LitCI("Kerja") >>,
       << LitCI("Business") >> \o Sp(im, 1) \o << LitCI("Unit") >> \o Sp(im, 1)
          \o << LitCI("Address") >> >>

LineEnd(im) == << Look(<< NL(im), << Eos >> >>) >>

AlamatTails(im) ==
    << Sp(im, 0) \o CommaColons \o Sp(im, 0) \o NL(im) \o Sp(im, 0) \o LazyWords(im)
          \o NL(im) \o Sp(im, 0) \o LazyWords(im) \o LineEnd(im),
       Sp(im, 0) \o CommaColons \o Sp(im, 0) \o LazyWords(im)
          \o NL(im) \o Sp(im, 0) \o LazyWords(im) \o LineEnd(im),
       Sp(im, 0) \o CommaColons \o Sp(im, 0) \o LazyWords(im) \o LineEnd(im) >>

alamat_unit_kerja_patterns(im) ==
    [i \in 1..3 |-> [h \in 1..2 |-> AlamatHeads(im)[h] \o AlamatTails(im)[i]]]

(* r'Product\s+Name\s*Business\s+Unit\s*Address ' with re.IGNORECASE; in   *)
(* app.py the third gap is \\s* too                                        *)
ProductNameNoiseRe(im) ==
    << LitCI("Product") >> \o Sp(im, 1) \o << LitCI("Name") >> \o Sp(im, 0)
    \o << LitCI("Business") >> \o Sp(im, IF im = "app" THEN 0 ELSE 1)
    \o << LitCI("Unit") >> \o Sp(im, 0) \o << LitCI("Address ") >>

(* the first entry of rs that found a match: its index, alternative, match *)
AnyWhich(rs) ==
    IF \A k \in DOMAIN rs : rs[k].which = 0 THEN [which |-> 0, alt |-> 0, m |-> << >>]
    ELSE LET k == CHOOSE i \in DOMAIN rs :
                     rs[i].which # 0 /\ \A n \in 1..(i - 1) : rs[n].which = 0
         IN [which |-> k, alt |-> rs[k].which, m |-> rs[k].m]

(* the first entry of a list of patterns-with-alternatives found in text   *)
first_match_any(patterns, text, i) ==
    AnyWhich([k \in 1..Len(patterns) |->
                IF k < i THEN [which |-> 0, m |-> << >>]
                ELSE ReSearchAny(patterns[k], text)])

(* balance_summary_pattern, re.IGNORECASE | re.DOTALL                      *)
LabelGap(im) == Sp(im, 0) \o Nl(im, 0, 1)

balance_summary_pattern(im) ==
    << Alt(<< LitCI("Saldo Awal"), LitCI("Opening Balance") >>) >> \o LabelGap(im)
    \o << Alt(<< LitCI("Opening Balance"), Lit("") >>) >> \o LabelGap(im)
    \o << Alt(<< LitCI("Total Transaksi Debet"), LitCI("Total Debit Transaction") >>) >>
    \o LabelGap(im)
    \o << Alt(<< LitCI("Total Debit Transaction"), Lit("") >>) >> \o LabelGap(im)
    \o << Alt(<< LitCI("Total Transaksi Kredit"), LitCI("Total Credit Transaction") >>) >>
    \o LabelGap(im)
    \o << Alt(<< LitCI("Total Credit Transaction"), Lit("") >>) >> \o LabelGap(im)
    \o << Alt(<< LitCI("Saldo Akhir"), LitCI("Closing Balance") >>) >> \o LabelGap(im)
    \o << Alt(<< LitCI("Closing Balance"), Lit("") >>) >> \o LabelGap(im)
    \o << Mark, AmountGroup(im)[2] >> \o Sp(im, 1) \o << AmountGroup(im)[2] >>
    \o Sp(im, 1) \o << AmountGroup(im)[2] >> \o Sp(im, 1)
    \o << AmountGroup(im)[2], Mark >>

(* s.rfind(c) + 1                                                          *)
RFind(s, c) ==
    LET at == {i \in 1..Len(s) : Ch(s, i) = c}
    IN IF at = {} THEN 0 ELSE CHOOSE i \in at : \A k \in at : k <= i

(* parse_amount, the local function of extract_personal_info: a ','        *)
(* right of every '.' is the decimal mark; any other ',' is dropped; of    *)
(* several '.' the last is the decimal point; 0.0 when float() raises.     *)
(* The value is in hundredths, further fraction digits are cut.            *)
parse_amount(im, amount_str) ==
    LET s == Strip(amount_str)
        last == RFind(s, ".")
        integer_part == RemoveChars(SubSeq(s, 1, last - 1), {"."})
        decimal_part == SubSeq(s, last + 1, Len(s))
        t == IF Contains(s, ",") /\ RFind(s, ",") > RFind(s, ".")
             THEN ReSubWith(<< Lit(",") >>, ".", RemoveChars(s, {"."}), 1)
             ELSE IF Contains(s, ",") THEN RemoveChars(s, {","})
             ELSE IF Count(s, ".") > 1
             THEN (IF im = "app" /\ decimal_part = "" THEN integer_part
                   ELSE integer_part \o "." \o decimal_part)
             ELSE s
        r == PyFloat(t)
    IN IF r.err THEN 0 ELSE r.val

(* amounts = financial_match.group(1).strip().split()                      *)
amounts_of(p, text, m) ==
    IF m = << >> THEN << >> ELSE SplitWs(Strip(Capture(p, text, m, 1)))

(* if len(amounts) >= 4: the four parsed amounts                           *)
summary_of(im, amounts) ==
    IF Len(amounts) >= 4
    THEN [k \in {"opening_balance", "total_debit_transaction",
                 "total_credit_transaction", "closing_balance"} |->
            parse_amount(im, amounts[
               CASE k = "opening_balance" -> 1
                 [] k = "total_debit_transaction" -> 2
                 [] k = "total_credit_transaction" -> 3
                 [] k = "closing_balance" -> 4])]
    ELSE << >>

(* the dict financial_summary                                              *)
financial_summary(im, text) ==
    summary_of(im, amounts_of(balance_summary_pattern(im), text,
                              ReSearch(balance_summary_pattern(im), text)))

(* the name and address of the matched block, None when no pattern matched *)
name_block(im, block) ==
    IF block = None THEN [name |-> None, address |-> None]
    ELSE name_and_address(im, block[1])

(* app.py: if not personal_info.get("Account Name"), the simpler pattern    *)
simpler_name(im, text, na) ==
    IF im = "app" /\ na.name = None
    THEN [na EXCEPT !.name = StripSome(first_group(<< simple_nama_pattern(im) >>, text, 1))]
    ELSE na

(* Account Name and Address: the block after "Kepada Yth. / To :"; app.py  *)
(* tries simple_nama_pattern when the name is still empty, while           *)
(* bri_streamlit_app.py tests whether the key is missing, which it never   *)
(* is                                                                      *)
nama(im, text) ==
    simpler_name(im, text, name_block(im, first_group(nama_patterns(im), text, 1)))

(* alamat_temp, from the match m of pattern p                              *)
alamat_temp(p, text, m, which) ==
    IF which <= 2
    THEN Strip(Capture(p, text, m, 1)) \o " " \o Strip(Capture(p, text, m, 2))
    ELSE Strip(Capture(p, text, m, 1))

(* the re.sub and strip() of the first pattern found                       *)
alamat_found(im, ps, text, r) ==
    IF r.which = 0 THEN None
    ELSE Some(Strip(ReSub(ProductNameNoiseRe(im),
                          alamat_temp(ps[r.which][r.alt], text, r.m, r.which))))

(* Business Unit Address: both groups of the first two patterns, the one   *)
(* group of the third                                                      *)
alamat_unit_kerja(im, text) ==
    alamat_found(im, alamat_unit_kerja_patterns(im), text,
                 first_match_any(alamat_unit_kerja_patterns(im), text, 1))

(* Product Name: group 1 of the first pattern found, stripped              *)
produk_found(ps, text, r) ==
    IF r.which = 0 THEN None
    ELSE Some(Strip(Capture(ps[r.which][r.alt], text, r.m, 1)))

produk(im, text) ==
    produk_found(produk_patterns(im), text, first_match_any(produk_patterns(im), text, 1))

PersonalInfoKeys ==
    {"Bank", "Account Name", "Account Number", "Address", "Report Date", "Branch",
     "Business Unit Address", "Product Name", "Currency", "Period", "Start Period",
     "End Period"}

(* the dict personal_info, na the name and address found                   *)
personal_info(im, text, na) ==
    [k \in PersonalInfoKeys |->
       CASE k = "Bank" -> Some("BRI")
         [] k = "Account Name" -> na.name
         [] k = "Address" -> na.address
         [] k = "Report Date" -> first_group(tanggal_patterns(im), text, 1)
         [] k = "Start Period" -> first_group(periode_patterns(im), text, 1)
         [] k = "End Period" -> first_group(periode_patterns(im), text, 2)
         [] k = "Account Number" -> first_group(rekening_patterns(im), text, 1)
         [] k = "Product Name" -> produk(im, text)
         [] k = "Currency" -> StripSome(first_group(valuta_patterns(im), text, 1))
         [] k = "Branch" -> StripSome(first_group(unit_patterns(im), text, 1))
         [] k = "Business Unit Address" -> alamat_unit_kerja(im, text)
         [] k = "Period" -> None]

(* extract_personal_info(text): the pair (personal_info, financial_summary) *)
extract_personal_info(im, text) ==
    [personal_info |-> personal_info(im, text, nama(im, text)),
     financial_summary |-> financial_summary(im, text)]

-----------------------------------------------------------------------------
(* The orchestrator                                                        *)

(* read_pdf_to_text on the page texts pdfplumber extracts: every non-empty *)
(* page followed by "\n" (bri_streamlit_app.py) or by "\\n" (app.py)       *)
RECURSIVE read_pdf_to_text(_, _)
read_pdf_to_text(im, pages) ==
    IF pages = << >> THEN ""
    ELSE (IF pages[1] # "" THEN pages[1] \o LineSep(im) ELSE "")
         \o read_pdf_to_text(im, Tail(pages))

(* extract_filename_id: Path is not imported, so a name with a separator   *)
(* raises NameError; otherwise os.path.splitext(filename)[0]               *)
extract_filename_id(filename) ==
    LET dots == {i \in 1..Len(filename) : Ch(filename, i) = "."}
        last == CHOOSE i \in dots : \A j \in dots : j <= i
    IN IF Contains(filename, "/") \/ Contains(filename, "\\")
       THEN [raised |-> TRUE]
       ELSE IF dots = {} \/ \A i \in 1..(last - 1) : Ch(filename, i) = "."
       THEN [raised |-> FALSE, val |-> filename]
       ELSE [raised |-> FALSE, val |-> SubSeq(filename, 1, last - 1)]

(* the transactions list, given what each family yields on the text:       *)
(* bri_streamlit_app.py picks the family by the file name; app.py takes    *)
(* the e-statement family's rows and, when there are none, the CMS ones    *)
chosen_transactions(im, filename, trx_2025, trx_cms) ==
    IF im = "app"
    THEN (IF trx_2025 = << >> THEN trx_cms ELSE trx_2025)
    ELSE (IF ~Contains(extract_filename_id(filename).val, "2025")
          THEN trx_cms
          ELSE trx_2025)

(* whether the CMS family's parsers give the result: by the file name in   *)
(* bri_streamlit_app.py, when the e-statement family yields no row in      *)
(* app.py                                                                  *)
uses_cms(im, filename, trx_2025) ==
    IF im = "app" THEN trx_2025 = << >>
    ELSE ~Contains(extract_filename_id(filename).val, "2025")

(* personal_info and summary_info of the family that gives the result      *)
chosen_header(im, filename, trx_2025, e_info, cms_info, cms_summary) ==
    IF uses_cms(im, filename, trx_2025)
    THEN [personal_info |-> cms_info.val, summary_info |-> cms_summary]
    ELSE [personal_info |-> e_info.personal_info,
          summary_info |-> e_info.financial_summary]

(* the five tables built once the header and the transactions list are     *)
(* populated: pd.DataFrame([personal_info]), pd.DataFrame([summary_info])  *)
(* (in app.py the empty table when summary_info is the empty dict), then   *)
(* trx_df, partner_trx_df and analytics_df                                 *)
statement_tables(im, header, transactions) ==
    {[raised |-> FALSE,
      personal_df |-> <<header.personal_info>>,
      summary_df |-> IF im = "app" /\ header.summary_info = << >> THEN << >>
                     ELSE <<header.summary_info>>,
      trx_df |-> IF transactions = << >> THEN transactions
                 ELSE transactions_df_after(im, transactions),
      partner_trx_df |-> a[2],
      analytics_df |-> create_partner_statistics_summary(a[1])] :
        a \in (IF transactions = << >> THEN {<< << >>, << >> >>}
               ELSE analyze_bri_partners_unified(im, transactions))}

(* the body of parse_bri_statement after the text is read, given what each *)
(* parser returns on the text; in the CMS family extract_cms_account_info  *)
(* is called first, and what it raises leaves parse_bri_statement          *)
parsed_statement(im, filename, e_info, trx_2025, cms_info, cms_summary, trx_cms) ==
    IF uses_cms(im, filename, trx_2025) /\ cms_info.raised
    THEN {[raised |-> TRUE]}
    ELSE statement_tables(
             im,
             chosen_header(im, filename, trx_2025, e_info, cms_info, cms_summary),
             chosen_transactions(im, filename, trx_2025, trx_cms))

(* parse_bri_statement: the set of results it can return, the five tables  *)
(* as a record; pdf_text is bound once and each parser is applied once     *)
parse_bri_statement(im, pages, filename) ==
    IF im # "app" /\ extract_filename_id(filename).raised
    THEN {[raised |-> TRUE]}
    ELSE UNION {parsed_statement(im, filename,
                                 extract_personal_info(im, pdf_text),
                                 extract_transactions(im, pdf_text),
                                 extract_cms_account_info(im, pdf_text),
                                 extract_cms_summary(im, pdf_text),
                                 extract_cms_transactions(im, pdf_text)) :
                   pdf_text \in {read_pdf_to_text(im, pages)}}

-----------------------------------------------------------------------------
(* The amount normalizer as a state machine: an amount string (or None)    *)
(* is normalized; the float it gives may be written back with str() and    *)
(* normalized again.                                                       *)

MaxAmountLen == 4

AmountAlphabet == {"0", "1", "5", ".", ",", "-", "x"}

RECURSIVE StrsUpTo(_, _)
StrsUpTo(alpha, n) ==
    IF n = 0 THEN {""}
    ELSE LET shorter == StrsUpTo(alpha, n - 1)
         IN shorter \cup {s \o c : s \in shorter, c \in alpha}

AmountExamples ==
    {"1.234,56", "1,234.56", "1.234.567", "1.234.56", "1234.50", "500", "0.00", "500000.00", "1500000.00", "1234567",
     " ", "  \t", " 1 5 ", "abc", "12a", "5.", ".50"}

AmountInputs ==
    {None} \cup {Some(s) : s \in StrsUpTo(AmountAlphabet, MaxAmountLen)
                                   \cup AmountExamples}

InitAmount ==
    /\ impl \in Impls
    /\ pc = "call"
    /\ arg \in AmountInputs
    /\ ret = [raised |-> FALSE, val |-> 0]
    /\ hist = << >>

CallCleanAmount ==
    /\ pc = "call"
    /\ ret' = clean_amount(arg)
    /\ pc' = "returned"
    /\ UNCHANGED <<impl, arg, hist>>

(* str(v) of the returned float becomes the next argument                  *)
Restringify ==
    /\ pc = "returned"
    /\ hist = << >>
    /\ ~ret.raised
    /\ hist' = <<[arg |-> arg, ret |-> ret]>>
    /\ arg' = Some(FloatStr(ret.val))
    /\ pc' = "call"
    /\ UNCHANGED <<impl, ret>>

NextAmount == CallCleanAmount \/ Restringify

SpecAmount == InitAmount /\ [][NextAmount]_vars

SeparatorsOnly(s) == AllIn(s, Digits \cup {",", "."})

FirstReturn == pc = "returned" /\ hist = << >>

(* C3: clean_amount("1.234,56") is 1234.56; when a comma is the rightmost  *)
(* separator it is the decimal point and every '.' a thousands separator.  *)
LastIndex(s, c) ==
    LET hits == {i \in 1..Len(s) : Ch(s, i) = c}
    IN IF hits = {} THEN 0 ELSE CHOOSE i \in hits : \A j \in hits : j <= i

RECURSIVE CommaToDot(_)
CommaToDot(s) ==
    IF s = "" THEN ""
    ELSE (IF Ch(s, 1) = "," THEN "." ELSE Ch(s, 1)) \o CommaToDot(Tail(s))

EuropeanReading(s) == PyFloat(CommaToDot(RemoveChars(s, {"."})))

C3_CommaRightmostIsDecimal ==
    (FirstReturn /\ arg # None) =>
        /\ arg[1] = "1.234,56" => ret.val = 123456
        /\ ( /\ SeparatorsOnly(arg[1])
             /\ LastIndex(arg[1], ",") > LastIndex(arg[1], ".")
             /\ ~EuropeanReading(arg[1]).err )
           => ret.val = EuropeanReading(arg[1]).val

(* C4: idempotence: for an amount string s of digits, commas and periods   *)
(* and v = clean_amount(s), clean_amount(str(v)) = v.                      *)
C4_Idempotent ==
    (pc = "returned" /\ hist # << >> /\ hist[1].arg # None) =>
        (SeparatorsOnly(hist[1].arg[1]) => ret.val = hist[1].ret.val)

(* C5: commas are always thousands separators; when there are several '.' *)
(* or the segment after the last '.' is not exactly two digits every '.'   *)
(* is dropped; "1,234.56" gives 1234.56 and "1.234.567" gives 1234567.0.   *)
DigitsOnlyValue(s) == 100 * DigitsValue(RemoveChars(s, {",", "."}))

C5_CommaThousandsDotRule ==
    (FirstReturn /\ arg # None /\ SeparatorsOnly(arg[1])) =>
        LET s == arg[1]
            noComma == RemoveChars(s, {","})
            lastDot == LastIndex(noComma, ".")
        IN /\ s = "1,234.56" => ret.val = 123456
           /\ s = "1.234.567" => ret.val = 123456700
           /\ ret = clean_amount(Some(noComma))
           /\ ( /\ lastDot # 0
                /\ (Count(noComma, ".") > 1 \/ Len(noComma) - lastDot # 2) )
              => ret.val = DigitsOnlyValue(s)

C5_Witness ==
    /\ FirstReturn
    /\ arg = Some("1.234.567")
    /\ ret.val = 123456700

(* C18: when an amount string ends in a '.' followed by exactly two        *)
(* digits, that '.' is the decimal point and every other '.' and ',' is    *)
(* stripped as a thousands separator: "1,234.56" gives 1234.56 and         *)
(* "1.234.56" gives 1234.56.                                               *)
EndsInDotTwoDigits(s) ==
    /\ Len(s) >= 3
    /\ Ch(s, Len(s) - 2) = "."
    /\ Ch(s, Len(s) - 1) \in Digits
    /\ Ch(s, Len(s)) \in Digits

LastDotDecimalValue(s) ==
    100 * DigitsValue(RemoveChars(SubSeq(s, 1, Len(s) - 3), {",", "."}))
        + DigitsValue(SubSeq(s, Len(s) - 1, Len(s)))

C18_LastDotTwoDigitsIsDecimal ==
    (FirstReturn /\ arg # None /\ SeparatorsOnly(arg[1]) /\ EndsInDotTwoDigits(arg[1])) =>
        /\ arg[1] = "1,234.56" => ret.val = 123456
        /\ arg[1] = "1.234.56" => ret.val = 123456
        /\ ret.val = LastDotDecimalValue(arg[1])

(* the same statement for the strings with a single '.'                    *)
C18_SingleDot ==
    (FirstReturn /\ arg # None /\ SeparatorsOnly(arg[1]) /\ EndsInDotTwoDigits(arg[1])
       /\ Count(arg[1], ".") = 1) =>
        ret.val = LastDotDecimalValue(arg[1])

(* C6: clean_amount never raises on a string or None, and gives 0.0 for    *)
(* None, the empty string, a whitespace-only string and any string whose   *)
(* residue after separator stripping is not numeric.                       *)
Residue(s) == RemoveChars(s, {",", "."} \cup Whitespace)

NonNumericResidue(s) ==
    \/ ~AllIn(Residue(s), Digits \cup {"+", "-"})
    \/ AllIn(Residue(s), {"+", "-"})

-----------------------------------------------------------------------------
(* The transaction parsers as a state machine: a text is handed to         *)
(* extract_transactions or to extract_cms_transactions.                    *)

MaxDescTokens == 2

DescVocab == {"TRANSFER", "2024", "BUDI"}

TailVocab == {"0.00", "500000.00", "1234567", "CMSPYRL", "CR"}

RECURSIVE SeqsOfLen(_, _)
SeqsOfLen(S, n) ==
    IF n = 0 THEN {<< >>}
    ELSE {<<x>> \o t : x \in S, t \in SeqsOfLen(S, n - 1)}

SeqsUpTo(S, n) == UNION {SeqsOfLen(S, k) : k \in 0..n}

(* one date+time stamped line per description and trailing columns        *)
AnchorLines ==
    {Join(<<"01/03/24", "10:15:00">> \o d \o t, " ") :
        d \in SeqsUpTo(DescVocab, MaxDescTokens), t \in SeqsOfLen(TailVocab, 4)}

ExampleLine ==
    "01/03/24 10:15:00 TRANSFER KE BUDI SANTOSA 1234567 0.00 500000.00 1500000.00"

(* a line that the doubled-backslash patterns of app.py accept             *)
AppAnchorLine == "\\dd/\\dd/\\dd\\s\\dd:\\dd:\\dd A B \\ddddddd d.dd dd,d d"

FewNumbersLine == "05/03/24 08:00:00 SALDO AWAL BULAN INI 0.00 1500000.00"

(* a line with a signed amount among its trailing columns                  *)
SignedAmountLine == "06/03/24 09:00:00 KOREKSI 5.00 1234567 -50.00 0.00 1000.00"

SampleLines ==
    {ExampleLine, AppAnchorLine, "", "OPENING BALANCE 1,000.00", FewNumbersLine,
     SignedAmountLine,
     "  02/03/24  11:00:00  BIAYA ADM  7654321  2,500.00  0.00  1497500.00 ",
     "03/03/24 09:30:00 1234567 0.00 500000.00 1500000.00",
     "04/03/24 12:00:00 NBMB BUDI TO SANTOSA 1234567 CR 5.00 7.50 9.00"}

ParseInputs ==
    AnchorLines \cup SampleLines
    \cup {a \o sep \o b : a \in SampleLines, b \in SampleLines,
                           sep \in {"\n", "\\n"}}

InitParse ==
    /\ impl \in Impls
    /\ pc = "call"
    /\ arg \in ParseInputs
    /\ ret = << >>
    /\ hist = << >>

CallExtractTransactions ==
    /\ pc = "call"
    /\ ret' = extract_transactions(impl, arg)
    /\ pc' = "estatement_returned"
    /\ UNCHANGED <<impl, arg, hist>>

CallExtractCmsTransactions ==
    /\ pc = "call"
    /\ ret' = extract_cms_transactions(impl, arg)
    /\ pc' = "cms_returned"
    /\ UNCHANGED <<impl, arg, hist>>

NextParse == CallExtractTransactions \/ CallExtractCmsTransactions

SpecParse == InitParse /\ [][NextParse]_vars

(* What the claims call an anchor line and a numeric-shaped token, said    *)
(* on the characters: dd/dd/dd, then dd:dd:dd; digits, commas, periods.    *)
DateShaped(t) ==
    /\ Len(t) = 8
    /\ \A i \in {1, 2, 4, 5, 7, 8} : Ch(t, i) \in Digits
    /\ Ch(t, 3) = "/" /\ Ch(t, 6) = "/"

TimeShaped(t) ==
    /\ Len(t) = 8
    /\ \A i \in {1, 2, 4, 5, 7, 8} : Ch(t, i) \in Digits
    /\ Ch(t, 3) = ":" /\ Ch(t, 6) = ":"

NumericShaped(t) == t # "" /\ AllIn(t, Digits \cup {",", "."})

SingleLine(text) == ~Contains(text, "\n") /\ ~Contains(text, "\\n")

(* C1: the spec's example line gives exactly one Transaction with date     *)
(* "01/03/24", debit 0.0, credit 500000.0, balance 1500000.0, description  *)
(* "TRANSFER KE BUDI SANTOSA"; and every date+time anchor line with at     *)
(* least one description token whose last four tokens are numeric-shaped   *)
(* gives exactly one record: date token 0, debit/credit/balance the        *)
(* normalized third-last/second-last/last tokens, description the tokens   *)
(* between the time and the fourth-last token joined by single spaces.     *)
C1_AnchorLineRecord ==
    (pc = "estatement_returned" /\ SingleLine(arg)) =>
        LET t == SplitWs(arg)
            n == Len(t)
        IN /\ arg = ExampleLine =>
                /\ Len(ret) = 1
                /\ ret[1].tanggal = "01/03/24"
                /\ ret[1].debit = 0
                /\ ret[1].kredit = 50000000
                /\ ret[1].saldo = 150000000
                /\ ret[1].deskripsi = "TRANSFER KE BUDI SANTOSA"
           /\ ( /\ n >= 7
                /\ DateShaped(t[1]) /\ TimeShaped(t[2])
                /\ \A i \in (n - 3)..n : NumericShaped(t[i]) )
              => /\ Len(ret) = 1
                 /\ ret[1].tanggal = t[1]
                 /\ ret[1].debit = clean_amount(Some(t[n - 2])).val
                 /\ ret[1].kredit = clean_amount(Some(t[n - 1])).val
                 /\ ret[1].saldo = clean_amount(Some(t[n])).val
                 /\ ret[1].deskripsi = Join(SubSeq(t, 3, n - 4), " ")

(* the same statement for the definitions of src/bri_streamlit_app.py only *)
C1_HoldsInBriStreamlitApp == impl = "bri_streamlit_app" => C1_AnchorLineRecord

(* C2: for every Transaction emitted by extract_transactions or            *)
(* extract_cms_transactions, debit == 0 or credit == 0.                    *)
C2_DebitOrCreditZero ==
    /\ pc = "estatement_returned" =>
          \A k \in 1..Len(ret) : ret[k].debit = 0 \/ ret[k].kredit = 0
    /\ pc = "cms_returned" =>
          \A k \in 1..Len(ret) : ret[k].Debit = 0 \/ ret[k].Credit = 0

(* C2 as amended: the parsers copy the two amount columns without          *)
(* enforcing exclusivity.  Every line that is an anchor, has enough        *)
(* tokens and has four numeric-shaped tokens gives one record, in order,   *)
(* and in that record debit == 0 or credit == 0 exactly when one of the    *)
(* two tokens taken as debit and credit (second and third of the last      *)
(* four numeric-shaped tokens in extract_transactions, first and second    *)
(* in extract_cms_transactions) carries no non-zero digit or is a CMS      *)
(* code.                                                                   *)
ZeroAmountToken(t) == t \in CmsCodes \/ AllIn(t, {"0", ",", ".", "\\", "d"})

LastFourNumeric(im, cms, line) ==
    LET IsNum(x) == IsNumericPart(im, cms, x)
        nums == SelectSeq(SplitWs(line), IsNum)
    IN SubSeq(nums, Len(nums) - 3, Len(nums))

EmittingLines(im, cms, text) ==
    LET Emits(raw) ==
            LET IsNum(x) == IsNumericPart(im, cms, x)
            IN /\ ReMatch(AnchorRe(im), Strip(raw)) # << >>
               /\ Len(SplitWs(raw)) >= (IF cms THEN 6 ELSE 7)
               /\ Len(SelectSeq(SplitWs(raw), IsNum)) >= 4
    IN SelectSeq(Split(text, LineSep(im)), Emits)

C2_ZeroExactlyWhenTokenZero ==
    /\ pc = "estatement_returned" =>
          LET src == EmittingLines(impl, FALSE, arg)
          IN /\ Len(ret) = Len(src)
             /\ \A k \in 1..Len(ret) :
                   LET np == LastFourNumeric(impl, FALSE, src[k])
                   IN (ret[k].debit = 0 \/ ret[k].kredit = 0)
                         <=> (ZeroAmountToken(np[2]) \/ ZeroAmountToken(np[3]))
    /\ pc = "cms_returned" =>
          LET src == EmittingLines(impl, TRUE, arg)
          IN /\ Len(ret) = Len(src)
             /\ \A k \in 1..Len(ret) :
                   LET np == LastFourNumeric(impl, TRUE, src[k])
                   IN (ret[k].Debit = 0 \/ ret[k].Credit = 0)
                         <=> (ZeroAmountToken(np[1]) \/ ZeroAmountToken(np[2]))

C2_Witness ==
    /\ pc = "estatement_returned"
    /\ Len(ret) = 2
    /\ ret[1].debit = 0 /\ ret[1].kredit # 0
    /\ ret[2].debit # 0 /\ ret[2].kredit = 0

(* The non-blank lines of the text, stripped, and those of them from which *)
(* the parser that was called appends a record (a record is built from its *)
(* anchor line alone)                                                      *)
NonBlankLines ==
    LET NonBlank(l) == Strip(l) # ""
        kept == SelectSeq(Split(arg, "\n"), NonBlank)
    IN [i \in 1..Len(kept) |-> Strip(kept[i])]

RecordLines ==
    LET Emits(l) == IF pc = "cms_returned" THEN cms_line(impl, l) # << >>
                    ELSE estatement_line(impl, l) # << >>
    IN SelectSeq(stripped_lines(impl, arg), Emits)

(* C14: line grouping is lossless: the lines of the emitted records, in    *)
(* order, are exactly the non-blank lines of the input text, none lost and *)
(* none duplicated.                                                        *)
C14_LineGroupingLossless ==
    pc \in {"estatement_returned", "cms_returned"} => RecordLines = NonBlankLines

(* C15 as stated: in both parsers the four numeric-shaped tokens collected *)
(* from the end of an anchor line are, left to right, teller/reference id, *)
(* debit, credit, balance.                                                 *)
C15_TellerDebitCreditBalance ==
    /\ pc = "estatement_returned" =>
          LET src == EmittingLines(impl, FALSE, arg)
          IN /\ Len(ret) = Len(src)
             /\ \A k \in 1..Len(ret) :
                   LET np == LastFourNumeric(impl, FALSE, src[k])
                   IN /\ ret[k].teller_id = np[1]
                      /\ ret[k].debit = clean_amount(Some(np[2])).val
                      /\ ret[k].kredit = clean_amount(Some(np[3])).val
                      /\ ret[k].saldo = clean_amount(Some(np[4])).val
    /\ pc = "cms_returned" =>
          LET src == EmittingLines(impl, TRUE, arg)
          IN /\ Len(ret) = Len(src)
             /\ \A k \in 1..Len(ret) :
                   LET np == LastFourNumeric(impl, TRUE, src[k])
                   IN /\ ret[k].Debit = clean_amount(Some(np[2])).val
                      /\ ret[k].Credit = clean_amount(Some(np[3])).val
                      /\ ret[k].Saldo = clean_amount(Some(np[4])).val

(* C15 as amended: the column order depends on the parser.  In             *)
(* extract_transactions the four tokens are teller id, debit, credit,      *)
(* balance; in extract_cms_transactions they are debit, credit, ledger     *)
(* balance, teller id, and the teller id is not part of the record.        *)
C15_ColumnOrderPerParser ==
    /\ pc = "estatement_returned" =>
          LET src == EmittingLines(impl, FALSE, arg)
          IN /\ Len(ret) = Len(src)
             /\ \A k \in 1..Len(ret) :
                   LET np == LastFourNumeric(impl, FALSE, src[k])
                   IN /\ ret[k].teller_id = np[1]
                      /\ ret[k].debit = clean_amount(Some(np[2])).val
                      /\ ret[k].kredit = clean_amount(Some(np[3])).val
                      /\ ret[k].saldo = clean_amount(Some(np[4])).val
    /\ pc = "cms_returned" =>
          LET src == EmittingLines(impl, TRUE, arg)
          IN /\ Len(ret) = Len(src)
             /\ \A k \in 1..Len(ret) :
                   LET np == LastFourNumeric(impl, TRUE, src[k])
                   IN /\ ret[k].Debit = clean_amount(Some(np[1])).val
                      /\ ret[k].Credit = clean_amount(Some(np[2])).val
                      /\ ret[k].Saldo = clean_amount(Some(np[3])).val
                      /\ DOMAIN ret[k] = {"Date", "Remark", "Debit", "Credit", "Saldo"}

C15_Witness ==
    /\ pc = "cms_returned"
    /\ arg = ExampleLine
    /\ Len(ret) = 1
    /\ ret[1].Debit = 123456700
    /\ ret[1].Credit = 0
    /\ ret[1].Saldo = 50000000

(* C16: for every record emitted from an anchor line, the four tokens used *)
(* as the trailing columns are the final four tokens of the line, and the  *)
(* description is exactly the tokens between index 2 and the first of      *)
(* those four, joined by single spaces: no token is both in the            *)
(* description and used as a column, and no token between the time and     *)
(* the columns is missing from the description.                            *)
C16_FinalFourTokensUsed ==
    /\ pc = "estatement_returned" =>
          LET src == EmittingLines(impl, FALSE, arg)
          IN /\ Len(ret) = Len(src)
             /\ \A k \in 1..Len(ret) :
                   LET t == SplitWs(src[k])
                       n == Len(t)
                   IN /\ ret[k].teller_id = t[n - 3]
                      /\ ret[k].debit = clean_amount(Some(t[n - 2])).val
                      /\ ret[k].kredit = clean_amount(Some(t[n - 1])).val
                      /\ ret[k].saldo = clean_amount(Some(t[n])).val
                      /\ ret[k].deskripsi = Join(SubSeq(t, 3, n - 4), " ")
    /\ pc = "cms_returned" =>
          LET src == EmittingLines(impl, TRUE, arg)
          IN /\ Len(ret) = Len(src)
             /\ \A k \in 1..Len(ret) :
                   LET t == SplitWs(src[k])
                       n == Len(t)
                   IN /\ ret[k].Debit = clean_amount(Some(t[n - 3])).val
                      /\ ret[k].Credit = clean_amount(Some(t[n - 2])).val
                      /\ ret[k].Saldo = clean_amount(Some(t[n - 1])).val
                      /\ ret[k].Remark = Join(SubSeq(t, 3, n - 4), " ")

(* C17: an anchor line in which fewer than four numeric-shaped tokens are  *)
(* found produces no record: the transaction list is the one of the text   *)
(* without that line (one record per remaining anchor line with enough     *)
(* tokens, in order, carrying that line's date and description), no        *)
(* partial record is appended and no exception escapes.                    *)
C17_FewNumericTokensNoRecord ==
    pc \in {"estatement_returned", "cms_returned"} =>
        LET cms == pc = "cms_returned"
            IsNum(x) == IsNumericPart(impl, cms, x)
            Kept(l) == ~ ( /\ ReMatch(AnchorRe(impl), Strip(l)) # << >>
                           /\ Len(SelectSeq(SplitWs(l), IsNum)) < 4 )
            others == SelectSeq(Split(arg, LineSep(impl)), Kept)
            src == EmittingLines(impl, cms, Join(others, LineSep(impl)))
        IN /\ Len(ret) = Len(src)
           /\ \A k \in 1..Len(ret) :
                 LET t == SplitWs(src[k])
                 IN IF cms
                    THEN /\ ret[k].Date = t[1]
                         /\ ret[k].Remark = Join(SubSeq(t, 3, Len(t) - 4), " ")
                    ELSE /\ ret[k].tanggal = t[1]
                         /\ ret[k].waktu = t[2]
                         /\ ret[k].deskripsi = Join(SubSeq(t, 3, Len(t) - 4), " ")

C17_Witness ==
    /\ pc = "estatement_returned"
    /\ impl = "bri_streamlit_app"
    /\ arg = FewNumbersLine \o "\n" \o ExampleLine
    /\ Len(ret) = 1
    /\ ret[1].deskripsi = "TRANSFER KE BUDI SANTOSA"

(* The amounts of a record of either parser                                *)
RecordAmounts(r) ==
    IF "Remark" \in DOMAIN r THEN {r.Debit, r.Credit, r.Saldo}
    ELSE {r.debit, r.kredit, r.saldo}

(* C26: every debit, credit and balance value of every transaction either  *)
(* parser emits, on any text, is non-negative.                             *)
C26_AmountsNonNegative ==
    pc \in {"estatement_returned", "cms_returned"} =>
        \A i \in 1..Len(ret) : \A v \in RecordAmounts(ret[i]) : v >= 0

C26_Witness ==
    /\ pc \in {"estatement_returned", "cms_returned"}
    /\ arg = SignedAmountLine
    /\ Len(ret) = 1
    /\ \A v \in RecordAmounts(ret[1]) : v >= 0
    /\ \E v \in RecordAmounts(ret[1]) : v > 0

-----------------------------------------------------------------------------
(* The partner-name extractor as a state machine: one call per behaviour,  *)
(* on a description of up to MaxWords words of PartnerVocab joined by      *)
(* blanks, on one of PartnerExamples, or on None.                          *)

MaxWords == 2

PartnerVocab ==
    {"PAYROLL", "payroll", "Fee", "biaya", "TAX", "BCA", "NBMB", "TO",
     "BM5", "BUDI", "SANTOSA", "12", "IBIZ", "ESB:1"}

PartnerExamples ==
    {"PAYROLL BATCH 2024 JAKARTA", "TRANSFER FEE BUDI SANTOSA",
     "BIAYA ADM", "PAJAK BUNGA", "tarik tunai BUDI", "PAYROLL BM\\d BUDI",
     "BM5 12 34 BUDI SANTOSA", "NBMB BUDI TO SANTOSA ESB:1",
     "PT MAJU JAYA-BCA 123", "SETOR PENJUALAN 12", "NBMB  TO  ESB:1",
     "BM5 12 34 PAYROLL-03",
     "TRANSFER KE BUDI AND SANTOSA JAYA ABADI 1234567 AB12 ESB:9 LAIN"}

PartnerInputs ==
    {None}
    \cup {Some(Join(ws, " ")) : ws \in SeqsUpTo(PartnerVocab, MaxWords)}
    \cup {Some(d) : d \in PartnerExamples}

InitPartner ==
    /\ impl \in Impls
    /\ pc = "call"
    /\ arg \in PartnerInputs
    /\ ret = << >>
    /\ hist = << >>

CallExtractPartnerName ==
    /\ pc = "call"
    /\ ret' = extract_partner_name_bri(impl, arg)
    /\ pc' = "partner_returned"
    /\ UNCHANGED <<impl, arg, hist>>

NextPartner == CallExtractPartnerName

SpecPartner == InitPartner /\ [][NextPartner]_vars

(* The administrative keyword set of the claims, in upper case, and the    *)
(* triggers of the branches tested before the payroll one, said on the     *)
(* characters of the description.                                          *)
AdminKeywords ==
    {"BIAYA", "ADM", "BUNGA", "PAJAK", "KLIRING", "TARIK TUNAI", "SETORAN",
     "BI-FAST", "BPJS", "TAX", "INTEREST", "FEE", "SINGLE CN", "POLLING",
     "REWARD", "CLAIM", "BPJS TK", "BPJS KESEHATAN"}

HasAdminKeyword(d) == \E k \in AdminKeywords : Contains(Upper(d), k)

HasPayrollMarker(d) == Contains(Upper(d), "PAYROLL")

BmTrigger(im, d) ==
    IF im = "app" THEN Contains(d, "BM\\d")
    ELSE \E i \in 1..(Len(d) - 2) :
             SubSeq(d, i, i + 1) = "BM" /\ Ch(d, i + 2) \in Digits

EarlierTrigger(im, d) ==
    \/ BmTrigger(im, d)
    \/ \E t \in {"NBMB", "WBNKTRF", "BFST", "BCA", "BNI", "MANDIRI",
                 "DANAMON", "IBIZ"} : Contains(Upper(d), t)

PartnerReturned == pc = "partner_returned" /\ arg # None

(* C7: every description that contains a keyword of the administrative set *)
(* in any letter case gets null from extract_partner_name_bri, whatever    *)
(* grammar triggers it also contains.                                      *)
C7_AdminKeywordGivesNull ==
    (PartnerReturned /\ HasAdminKeyword(arg[1])) => ret = None

(* C8 as stated: "PAYROLL BATCH 2024 JAKARTA" gives "PAYROLL", and every   *)
(* description containing the payroll marker in any letter case gives the  *)
(* literal "PAYROLL".                                                      *)
C8_PayrollMarkerGivesPayroll ==
    (PartnerReturned /\ HasPayrollMarker(arg[1])) => ret = Some("PAYROLL")

(* C8 amended: "PAYROLL BATCH 2024 JAKARTA" gives "PAYROLL", and so does   *)
(* every description that contains the payroll marker in any letter case,  *)
(* no administrative keyword, and no trigger of a branch tested earlier.   *)
C8_PayrollWhenNothingEarlierFires ==
    /\ (PartnerReturned /\ arg[1] = "PAYROLL BATCH 2024 JAKARTA")
           => ret = Some("PAYROLL")
    /\ (/\ PartnerReturned
        /\ HasPayrollMarker(arg[1])
        /\ ~HasAdminKeyword(arg[1])
        /\ ~EarlierTrigger(impl, arg[1]))
           => ret = Some("PAYROLL")

C8_Witness ==
    /\ pc = "partner_returned"
    /\ arg = Some("payroll BUDI")
    /\ ret = Some("PAYROLL")

(* The branches of the grammar in the order they are tested, the first one *)
(* whose trigger the cleaned description holds, and what that branch alone *)
(* gives                                                                   *)
FirstTriggered(im, cleaned) ==
    LET up == Upper(cleaned)
    IN IF BmTrigger(im, cleaned) THEN "BM"
       ELSE IF Contains(up, "NBMB") THEN "NBMB"
       ELSE IF Contains(up, "WBNKTRF") THEN "WBNKTRF"
       ELSE IF Contains(up, "BFST") THEN "BFST"
       ELSE IF \E bank \in BankNames : Contains(up, bank) THEN "BANK"
       ELSE IF Contains(up, "IBIZ") THEN "IBIZ"
       ELSE IF Contains(up, "PAYROLL") THEN "PAYROLL"
       ELSE IF Contains(up, "SETOR") /\ Contains(up, "PENJUALAN") THEN "SETOR"
       ELSE "FALLBACK"

BmAlone(company_words) ==
    IF company_words # << >> THEN Some(Join(company_words, " ")) ELSE None

BranchAlone(im, branch, cleaned) ==
    CASE branch = "BM" ->
            BmAlone(bm_company_words(im, stripped_lines(im, cleaned), 1, FALSE))
      [] branch = "NBMB" -> nbmb_branch(im, cleaned)
      [] branch = "WBNKTRF" -> wbnktrf_branch(im, cleaned)
      [] branch = "BFST" -> bfst_branch(im, cleaned)
      [] branch = "BANK" -> bank_branch(im, cleaned)
      [] branch = "IBIZ" -> ibiz_branch(cleaned)
      [] branch = "PAYROLL" -> Some("PAYROLL")
      [] branch = "SETOR" -> Some("PENJUALAN INTERNAL")
      [] branch = "FALLBACK" -> general_fallback(im, cleaned)

PassedExclusion ==
    PartnerReturned /\ arg[1] # "" /\ ~is_skipped(impl, arg[1])

(* C22: for every description that passes the exclusion step the result is *)
(* produced by one branch, the first in the order BM batch, NBMB, WBNKTRF, *)
(* BFST, bank suffix, IBIZ, PAYROLL, SETOR+PENJUALAN, generic fallback     *)
(* whose trigger the description holds; no later branch is evaluated once  *)
(* a trigger is hit.                                                       *)
C22_FirstTriggeredBranchDecides ==
    PassedExclusion
        => ret = BranchAlone(impl, FirstTriggered(impl, Strip(arg[1])), Strip(arg[1]))

(* from the NBMB test on, the first branch whose trigger is hit decides    *)
C22_ChainShortCircuits ==
    (PassedExclusion /\ ~BmTrigger(impl, Strip(arg[1])))
        => ret = BranchAlone(impl, FirstTriggered(impl, Strip(arg[1])), Strip(arg[1]))

(* The fallback branch decides when no trigger from NBMB to the sales      *)
(* deposit is hit and the BM branch, if triggered, collected no word       *)
FallbackDecides ==
    /\ PassedExclusion
    /\ LET up == Upper(Strip(arg[1]))
       IN /\ \A t \in {"NBMB", "WBNKTRF", "BFST", "IBIZ", "PAYROLL"} \cup BankNames :
                 ~Contains(up, t)
          /\ ~(Contains(up, "SETOR") /\ Contains(up, "PENJUALAN"))
    /\ BmTrigger(impl, Strip(arg[1]))
           => bm_company_words(impl, stripped_lines(impl, Strip(arg[1])), 1, FALSE) = << >>

(* the description after the noise stripping of the fallback branch, and   *)
(* its words that are alphabetic, two characters or longer and no stop word *)
NoiseStripped(im, cleaned) ==
    ReSub(CodeRe(im), ReSub(LongWordNumberRe(im), ReSub(EsbRe, cleaned)))

IsNameWord(w) == IsAlpha(w) /\ Len(w) >= 2 /\ Upper(w) \notin StopWords

SurvivingWords(im, cleaned) ==
    SelectSeq(SplitWs(NoiseStripped(im, cleaned)), IsNameWord)

NameWordsOf(survivors, name) ==
    /\ Len(SplitWs(name)) >= 2
    /\ Len(SplitWs(name)) <= 4
    /\ \A i \in 1..Len(SplitWs(name)) : IsNameWord(SplitWs(name)[i])
    /\ SplitWs(name) = FirstN(survivors, 4)
    /\ name = Join(SplitWs(name), " ")

(* C23: when the generic fallback branch decides the result, the returned  *)
(* name is made of at least 2 and at most 4 words, each alphabetic, two    *)
(* characters or longer and no stop word (THE, AND, OR, TO, FROM, FOR,     *)
(* WITH), in their original order; the result is null exactly when fewer   *)
(* than 2 such words survive the noise stripping.                          *)
C23_FallbackTwoToFourWords ==
    FallbackDecides =>
        /\ (ret = None) <=> (Len(SurvivingWords(impl, Strip(arg[1]))) < 2)
        /\ ret # None => NameWordsOf(SurvivingWords(impl, Strip(arg[1])), ret[1])

C23_Witness ==
    /\ FallbackDecides
    /\ arg = Some("TRANSFER KE BUDI AND SANTOSA JAYA ABADI 1234567 AB12 ESB:9 LAIN")
    /\ ret = Some("TRANSFER KE BUDI SANTOSA")

(* C27: for every description extract_partner_name_bri returns null or a   *)
(* partner name that is not empty and not made of whitespace alone, also   *)
(* in the NBMB branch when the sender and the receiver segment are both    *)
(* empty.                                                                  *)
C27_NeverEmptyName ==
    pc = "partner_returned" => (ret = None \/ Strip(ret[1]) # "")

(* outside the NBMB branch no empty name is returned                       *)
C27_EmptyNameOnlyFromNbmb ==
    (pc = "partner_returned" /\ ret # None /\ Strip(ret[1]) = "")
        => Contains(Upper(arg[1]), "NBMB")

-----------------------------------------------------------------------------
(* The partner analysis as a state machine: one call of                    *)
(* analyze_bri_partners_unified per behaviour, on a transaction table of   *)
(* up to MaxTxns rows in the columns of one of the two parser families.    *)

MaxTxns == 3

(* description, debit, credit (hundredths)                                 *)
RowSeeds ==
    {<<"BUDI SANTOSA", 0, 5000000>>, <<"BUDI SANTOSA", 1234500, 0>>,
     <<"PAYROLL", 1234500, 0>>, <<"PAYROLL", 0, 0>>,
     <<"BIAYA ADM", 50000, 0>>, <<"NBMB  TO  ESB:1", 0, 5000000>>,
     <<"SETOR PENJUALAN", 10000, 20000>>}

MakeRow(family, seed) ==
    IF family = "CMS"
    THEN [Date |-> "01/03/24", Remark |-> seed[1], Debit |-> seed[2],
          Credit |-> seed[3], Saldo |-> 150000000]
    ELSE [tanggal |-> "01/03/24", waktu |-> "10:15:00", deskripsi |-> seed[1],
          teller_id |-> "1234567", debit |-> seed[2], kredit |-> seed[3],
          saldo |-> 150000000]

AggregateInputs ==
    {[i \in 1..Len(seeds) |-> MakeRow(family, seeds[i])] :
        family \in {"CMS", "E_STATEMENT"}, seeds \in SeqsUpTo(RowSeeds, MaxTxns)}

InitAggregate ==
    /\ impl \in Impls
    /\ pc = "call"
    /\ arg \in AggregateInputs
    /\ ret = << >>
    /\ hist = << >>

CallAnalyzePartners ==
    /\ pc = "call"
    /\ \E out \in analyze_bri_partners_unified(impl, arg) : ret' = out
    /\ arg' = transactions_df_after(impl, arg)
    /\ pc' = "analysis_returned"
    /\ UNCHANGED <<impl, hist>>

NextAggregate == CallAnalyzePartners

SpecAggregate == InitAggregate /\ [][NextAggregate]_vars

(* The two sides of the conservation law, each summed on its own table     *)
RowDescription(r) == IF "Remark" \in DOMAIN r THEN r.Remark ELSE r.deskripsi

RowVolume(r) ==
    IF "Remark" \in DOMAIN r THEN r.Credit + r.Debit ELSE r.kredit + r.debit

IsAttributed(im, r) ==
    extract_partner_name_bri(im, Some(RowDescription(r))) # None

RECURSIVE AttributedVolume(_, _)
AttributedVolume(im, df) ==
    IF df = << >> THEN 0
    ELSE (IF IsAttributed(im, df[1]) THEN RowVolume(df[1]) ELSE 0)
         + AttributedVolume(im, Tail(df))

RECURSIVE TableVolume(_)
TableVolume(t) ==
    IF t = << >> THEN 0
    ELSE t[1].Total_Credit + t[1].Total_Debit + TableVolume(Tail(t))

(* C9: for every transaction table with at least one attributed            *)
(* transaction, Total_Credit plus Total_Debit summed over the rows of the  *)
(* per-partner summary table equals credit plus debit summed over exactly  *)
(* the transactions whose partner_name is non-null.                        *)
C9_ConservationOfVolume ==
    (/\ pc = "analysis_returned"
     /\ \E i \in 1..Len(arg) : IsAttributed(impl, arg[i]))
        => TableVolume(ret[2]) = AttributedVolume(impl, arg)

C9_Witness ==
    /\ pc = "analysis_returned"
    /\ \E i \in 1..Len(ret[2]) :
           /\ ret[2][i].Total_Transactions = 2
           /\ ret[2][i].Total_Credit > 0
           /\ ret[2][i].Total_Debit > 0
    /\ \E i \in 1..Len(arg) : ~IsAttributed(impl, arg[i]) /\ RowVolume(arg[i]) > 0
    /\ TableVolume(ret[2]) = AttributedVolume(impl, arg)

-----------------------------------------------------------------------------
(* The orchestrator as a state machine: one call of parse_bri_statement    *)
(* per behaviour, on a document of up to MaxPages pages and a file name.   *)

MaxPages == 2

(* pages that carry a header: of an e-statement, of a CMS statement, and   *)
(* one written with the backslashes app.py's patterns ask for              *)
EStatementHeaderPage ==
    "Kepada Yth. / To :\nBUDI SANTOSA\nJL MERDEKA 1\nNo. Rekening : 123456\n"
    \o "Tanggal Laporan : 01/03/25\n"
    \o "Saldo Awal Total Transaksi Debet Total Transaksi Kredit Saldo Akhir\n"
    \o "1.000,00 250,00 500,00 1.250,00"

CmsHeaderPage ==
    "Account No : 0206-01-000123-30-5 Account Name : PT MAJU JAYA "
    \o "Period : 01/03/2024 - 31/03/2024\n"
    \o "OPENING BALANCE TOTAL DEBET TOTAL CREDIT CLOSING BALANCE\n"
    \o "1,000.00 250.00 500.00 1,250.00"

AppHeaderPage == "Account\\sNo\\s:\\s\\ddd Tanggal\\sLaporan:\\dd/\\dd/\\dd"

OrchPages ==
    {"", EStatementHeaderPage, CmsHeaderPage, AppHeaderPage, ExampleLine,
     "03/03/24 09:30:00 1234567 0.00 500000.00 1500000.00",
     ExampleLine
        \o "\n02/03/24 11:00:00 PAYROLL MARET 7654321 500000.00 0.00 1000000.00",
     AppAnchorLine,
     "\\dd/\\dd/\\dd\\s\\dd:\\dd:\\dd A d d d d"}

OrchFilenames == {"BRI_2025_03.pdf", "CMS_MAR24.pdf", "rek.2025", "docs/2025.pdf"}

InitOrch ==
    /\ impl \in Impls
    /\ pc = "call"
    /\ arg \in {[pages |-> ps, filename |-> f] :
                   ps \in SeqsUpTo(OrchPages, MaxPages), f \in OrchFilenames}
    /\ ret = << >>
    /\ hist = << >>

CallParseBriStatement ==
    /\ pc = "call"
    /\ \E out \in parse_bri_statement(impl, arg.pages, arg.filename) : ret' = out
    /\ pc' = "parse_returned"
    /\ UNCHANGED <<impl, arg, hist>>

NextOrch == CallParseBriStatement

SpecOrch == InitOrch /\ [][NextOrch]_vars

(* The family a call runs first, and what a family yields on the text      *)
FirstFamily ==
    IF impl = "app" THEN "E_STATEMENT"
    ELSE IF Contains(extract_filename_id(arg.filename).val, "2025")
    THEN "E_STATEMENT"
    ELSE "CMS"

FamilyYield(family) ==
    IF family = "CMS"
    THEN extract_cms_transactions(impl, read_pdf_to_text(impl, arg.pages))
    ELSE extract_transactions(impl, read_pdf_to_text(impl, arg.pages))

OtherFamily == IF FirstFamily = "CMS" THEN "E_STATEMENT" ELSE "CMS"

(* C10: whenever the family parse_bri_statement runs first yields zero     *)
(* transactions and the other family would yield at least one on the same  *)
(* text, parse_bri_statement returns the other family's transaction table. *)
C10_FallbackToOtherFamily ==
    (/\ pc = "parse_returned"
     /\ ~ret.raised
     /\ FamilyYield(FirstFamily) = << >>
     /\ FamilyYield(OtherFamily) # << >>)
        => ret.trx_df = FamilyYield(OtherFamily)

(* The family whose parsers gave the returned tables                       *)
FamilyUsed ==
    IF uses_cms(impl, arg.filename, FamilyYield("E_STATEMENT")) THEN "CMS"
    ELSE "E_STATEMENT"

(* C11: what parse_bri_statement returns carries a "detected format" tag   *)
(* that names the parser family (CMS or e-statement) that produced the     *)
(* returned transactions.                                                  *)
C11_DetectedFormatTag ==
    (pc = "parse_returned" /\ ~ret.raised)
        => ("detected_format" \in DOMAIN ret /\ ret.detected_format = FamilyUsed)


(* C12: for every text and every file name no function of the parsing core *)
(* raises: parse_bri_statement returns, and so do extract_filename_id on   *)
(* the file name and extract_cms_account_info on the text (the other       *)
(* parsers have no path on which an exception leaves them).                *)
C12_CoreNeverRaises ==
    pc = "parse_returned"
        => /\ ~ret.raised
           /\ (impl # "app" => ~extract_filename_id(arg.filename).raised)
           /\ ~extract_cms_account_info(impl, read_pdf_to_text(impl, arg.pages)).raised


(* C13: when the source text is empty, parse_bri_statement raises nothing  *)
(* and returns zero transactions, every account field (but the constant    *)
(* bank label) null and every balance summary field null.                  *)
C13_EmptyTextAllNull ==
    (pc = "parse_returned" /\ read_pdf_to_text(impl, arg.pages) = "")
        => /\ ~ret.raised
           /\ ret.trx_df = << >>
           /\ \A i \in 1..Len(ret.personal_df) :
                 \A k \in DOMAIN ret.personal_df[i] \ {"Bank"} :
                    ret.personal_df[i][k] = None
           /\ \A i \in 1..Len(ret.summary_df) :
                 \A k \in DOMAIN ret.summary_df[i] : ret.summary_df[i][k] = None

(* The transactions of the returned table that have a partner, and the     *)
(* columns of a transaction row                                            *)
AttributedRows ==
    LET Has(r) == IsAttributed(impl, r)
    IN SelectSeq(ret.trx_df, Has)

RowCredit(r) == IF "Remark" \in DOMAIN r THEN r.Credit ELSE r.kredit

RowDebit(r) == IF "Remark" \in DOMAIN r THEN r.Debit ELSE r.debit

RECURSIVE CreditSum(_)
CreditSum(rows) ==
    IF rows = << >> THEN 0 ELSE RowCredit(rows[1]) + CreditSum(Tail(rows))

RECURSIVE DebitSum(_)
DebitSum(rows) ==
    IF rows = << >> THEN 0 ELSE RowDebit(rows[1]) + DebitSum(Tail(rows))

(* C19: in what parse_bri_statement returns, the analytics row's           *)
(* No_of_Credit is the number of attributed transactions with credit > 0,  *)
(* No_of_Debit the number with debit > 0, Total_Credit_Amount and          *)
(* Total_Debit_Amount are the sums over the attributed transactions, and   *)
(* Total_Partners is the number of distinct partners, also when a partner  *)
(* has several transactions of the same direction.                         *)
C19_AnalyticsCountsTransactions ==
    (pc = "parse_returned" /\ ~ret.raised /\ ret.analytics_df # << >>) =>
        LET row == ret.analytics_df[1]
            HasCredit(r) == RowCredit(r) > 0
            HasDebit(r) == RowDebit(r) > 0
        IN /\ row.No_of_Credit = Len(SelectSeq(AttributedRows, HasCredit))
           /\ row.No_of_Debit = Len(SelectSeq(AttributedRows, HasDebit))
           /\ row.Total_Credit_Amount = CreditSum(AttributedRows)
           /\ row.Total_Debit_Amount = DebitSum(AttributedRows)
           /\ row.Total_Partners =
                 Cardinality({extract_partner_name_bri(impl, Some(RowDescription(AttributedRows[i]))) :
                                 i \in 1..Len(AttributedRows)})

(* the amounts and the number of partners alone                            *)
C19_SumsAndPartners ==
    (pc = "parse_returned" /\ ~ret.raised /\ ret.analytics_df # << >>) =>
        LET row == ret.analytics_df[1]
        IN /\ row.Total_Credit_Amount = CreditSum(AttributedRows)
           /\ row.Total_Debit_Amount = DebitSum(AttributedRows)
           /\ row.Total_Partners =
                 Cardinality({extract_partner_name_bri(impl, Some(RowDescription(AttributedRows[i]))) :
                                 i \in 1..Len(AttributedRows)})

(* The partner of an attributed transaction and the total volume of a      *)
(* partner over the attributed transactions                                *)
RowPartner(r) == extract_partner_name_bri(impl, Some(RowDescription(r)))[1]

PartnerVolume(name) ==
    LET Mine(r) == RowPartner(r) = name
    IN CreditSum(SelectSeq(AttributedRows, Mine)) + DebitSum(SelectSeq(AttributedRows, Mine))

LargestVolumePartners ==
    {RowPartner(AttributedRows[i]) : i \in 1..Len(AttributedRows)}
        \cap {n \in {RowPartner(AttributedRows[i]) : i \in 1..Len(AttributedRows)} :
                 \A j \in 1..Len(AttributedRows) :
                    PartnerVolume(RowPartner(AttributedRows[j])) <= PartnerVolume(n)}

(* C20: when two or more partners tie for the largest total (debit +       *)
(* credit) volume, Top_Partner is the tied partner whose first transaction *)
(* comes earliest in the transaction sequence, not the one that sorts      *)
(* first by name.                                                          *)
C20_TopPartnerFirstEncountered ==
    (pc = "parse_returned" /\ ~ret.raised /\ ret.analytics_df # << >>) =>
        LET first == CHOOSE i \in 1..Len(AttributedRows) :
                        /\ RowPartner(AttributedRows[i]) \in LargestVolumePartners
                        /\ \A j \in 1..(i - 1) :
                              RowPartner(AttributedRows[j]) \notin LargestVolumePartners
        IN ret.analytics_df[1].Top_Partner = RowPartner(AttributedRows[first])

(* what the code does: of the tied partners the one that sorts first       *)
C20_TopPartnerSmallestName ==
    (pc = "parse_returned" /\ ~ret.raised /\ ret.analytics_df # << >>) =>
        /\ ret.analytics_df[1].Top_Partner \in LargestVolumePartners
        /\ \A n \in LargestVolumePartners \ {ret.analytics_df[1].Top_Partner} :
              StrLess(ret.analytics_df[1].Top_Partner, n)

(* The header tables parse_bri_statement builds from what the e-statement  *)
(* family's header parser returns                                          *)
EStatementHeaderTables(e_info) ==
    [personal_df |-> <<e_info.personal_info>>,
     summary_df |-> IF impl = "app" /\ e_info.financial_summary = << >> THEN << >>
                    ELSE <<e_info.financial_summary>>]

(* C21: when both parser families yield zero transactions on a text, the   *)
(* orchestrator that runs the e-statement family first and checks its      *)
(* yield (app.py) returns the account info and the balance summary of the  *)
(* e-statement family's header parser, not those of the CMS family.        *)
C21_BothEmptyKeepsFirstFamily ==
    (/\ pc = "parse_returned"
     /\ impl = "app"
     /\ ~ret.raised
     /\ FamilyYield("E_STATEMENT") = << >>
     /\ FamilyYield("CMS") = << >>)
        => [personal_df |-> ret.personal_df, summary_df |-> ret.summary_df]
              = EStatementHeaderTables(
                   extract_personal_info(impl, read_pdf_to_text(impl, arg.pages)))

(* what it returns then: the CMS family's header                           *)
C21_BothEmptyKeepsCmsHeader ==
    (/\ pc = "parse_returned"
     /\ impl = "app"
     /\ ~ret.raised
     /\ FamilyYield("E_STATEMENT") = << >>)
        => ret.personal_df =
              <<extract_cms_account_info(impl, read_pdf_to_text(impl, arg.pages)).val>>

-----------------------------------------------------------------------------
(* The balance summaries as a state machine: on a text made of the label   *)
(* line of one statement family and a line of four amount tokens, either   *)
(* extract_cms_summary or extract_personal_info is called once.            *)

SummaryTokens == {"1.000,00", "250,00", "1,250.00"}

SummaryLabels ==
    [E_STATEMENT |->
        "Saldo Awal Total Transaksi Debet Total Transaksi Kredit Saldo Akhir",
     CMS |-> "OPENING BALANCE TOTAL DEBET TOTAL CREDIT CLOSING BALANCE"]

SummaryText(a) == SummaryLabels[a.family] \o "\n" \o Join(a.tokens, " ")

InitSummary ==
    /\ impl \in Impls
    /\ pc = "call"
    /\ arg \in {[family |-> f, tokens |-> <<a, b, c, d>>] :
                   f \in {"E_STATEMENT", "CMS"},
                   a \in SummaryTokens, b \in SummaryTokens,
                   c \in SummaryTokens, d \in SummaryTokens}
    /\ ret = << >>
    /\ hist = << >>

CallExtractCmsSummary ==
    /\ pc = "call"
    /\ ret' = extract_cms_summary(impl, SummaryText(arg))
    /\ pc' = "cms_summary_returned"
    /\ UNCHANGED <<impl, arg, hist>>

CallExtractPersonalInfo ==
    /\ pc = "call"
    /\ ret' = extract_personal_info(impl, SummaryText(arg))
    /\ pc' = "personal_info_returned"
    /\ UNCHANGED <<impl, arg, hist>>

NextSummary == CallExtractCmsSummary \/ CallExtractPersonalInfo

SpecSummary == InitSummary /\ [][NextSummary]_vars

(* The European-first reading of an amount token: a comma that is the      *)
(* rightmost separator is the decimal point and every '.' a thousands      *)
(* separator; otherwise commas are thousands separators                    *)
EuropeanFirst(s) ==
    IF LastIndex(s, ",") > LastIndex(s, ".") THEN EuropeanReading(s).val
    ELSE PyFloat(RemoveChars(s, {","})).val

(* C24: each four-number balance summary, the e-statement one of           *)
(* extract_personal_info and the CMS one of extract_cms_summary, holds the *)
(* European-first reading of its four tokens ("1.000,00" is 1000.0) as     *)
(* opening balance, total debit, total credit and closing balance, in the  *)
(* order of the labels.                                                    *)
C24_SummariesEuropeanFirst ==
    /\ (pc = "cms_summary_returned" /\ ret # << >>) =>
          /\ ret["Saldo Awal"] = EuropeanFirst(arg.tokens[1])
          /\ ret["Mutasi Debit"] = EuropeanFirst(arg.tokens[2])
          /\ ret["Mutasi Credit"] = EuropeanFirst(arg.tokens[3])
          /\ ret["Saldo Akhir"] = EuropeanFirst(arg.tokens[4])
    /\ (pc = "personal_info_returned" /\ ret.financial_summary # << >>) =>
          /\ ret.financial_summary.opening_balance = EuropeanFirst(arg.tokens[1])
          /\ ret.financial_summary.total_debit_transaction = EuropeanFirst(arg.tokens[2])
          /\ ret.financial_summary.total_credit_transaction = EuropeanFirst(arg.tokens[3])
          /\ ret.financial_summary.closing_balance = EuropeanFirst(arg.tokens[4])

(* the e-statement summary alone, found on every text with its labels in   *)
(* bri_streamlit_app.py                                                    *)
C24_EStatementSummaryEuropeanFirst ==
    pc = "personal_info_returned" =>
        /\ (impl = "bri_streamlit_app" /\ arg.family = "E_STATEMENT")
              => ret.financial_summary # << >>
        /\ ret.financial_summary # << >> =>
              /\ ret.financial_summary.opening_balance = EuropeanFirst(arg.tokens[1])
              /\ ret.financial_summary.total_debit_transaction = EuropeanFirst(arg.tokens[2])
              /\ ret.financial_summary.total_credit_transaction = EuropeanFirst(arg.tokens[3])
              /\ ret.financial_summary.closing_balance = EuropeanFirst(arg.tokens[4])

-----------------------------------------------------------------------------
(* Claims on the partner analysis (SpecAggregate), continued               *)

(* The direction of a transaction by its amounts, the partner of each row  *)
(* of the input table, and the rows that have a given partner and          *)
(* direction                                                               *)
DirectionByAmounts(r) ==
    IF RowDebit(r) > 0 THEN "DEBIT"
    ELSE IF RowCredit(r) > 0 THEN "CREDIT"
    ELSE "UNKNOWN"

PartnerOf(r) == extract_partner_name_bri(impl, Some(RowDescription(r)))

InputPartners == [i \in 1..Len(arg) |-> PartnerOf(arg[i])]

RowsOf(partners, partner, direction) ==
    {i \in 1..Len(arg) :
        partners[i] = partner /\ DirectionByAmounts(arg[i]) = direction}

RECURSIVE VolumeSum(_)
VolumeSum(rows) ==
    IF rows = << >> THEN 0 ELSE RowVolume(rows[1]) + VolumeSum(Tail(rows))

VolumeOf(indexes) ==
    LET In(i) == i \in indexes
    IN VolumeSum([k \in 1..Cardinality(indexes) |->
                     arg[SelectSeq([i \in 1..Len(arg) |-> i], In)[k]]])

NoneAttributed == \A i \in 1..Len(arg) : ~IsAttributed(impl, arg[i])

EnrichedAsClaimed ==
    /\ Len(ret[1]) = Len(arg)
    /\ \A i \in 1..Len(arg) :
          /\ ret[1][i].transaction_type = DirectionByAmounts(arg[i])
          /\ ret[1][i].amount = RowDebit(arg[i]) + RowCredit(arg[i])

GroupsAsClaimed(partners) ==
    /\ \A j \in 1..Len(ret[1]) :
          /\ ret[1][j].transaction_type \in {"DEBIT", "CREDIT", "UNKNOWN"}
          /\ RowsOf(partners, ret[1][j].partner_name, ret[1][j].transaction_type) # {}
          /\ ret[1][j].transaction_count =
                Cardinality(RowsOf(partners, ret[1][j].partner_name,
                                   ret[1][j].transaction_type))
          /\ ret[1][j].amount =
                VolumeOf(RowsOf(partners, ret[1][j].partner_name,
                                ret[1][j].transaction_type))
    /\ \A i \in 1..Len(arg) :
          partners[i] # None =>
             \E j \in 1..Len(ret[1]) :
                /\ ret[1][j].partner_name = partners[i]
                /\ ret[1][j].transaction_type = DirectionByAmounts(arg[i])

(* C25: the direction of each enriched transaction comes from its amounts  *)
(* alone: DEBIT when debit > 0, CREDIT when debit is not > 0 and           *)
(* credit > 0, UNKNOWN when neither is positive; each transaction has one  *)
(* of the three and its amount is debit + credit.  The enriched table is   *)
(* what is returned when no transaction has a partner; otherwise the       *)
(* grouped table shows it: each group holds the transactions of its        *)
(* partner with that direction, and its amount is their debit + credit.    *)
C25_DirectionFromAmounts ==
    (pc = "analysis_returned" /\ arg # << >>) =>
        IF \A i \in 1..Len(ret[1]) : "transaction_count" \notin DOMAIN ret[1][i]
        THEN NoneAttributed /\ EnrichedAsClaimed
        ELSE \A partners \in {InputPartners} : GroupsAsClaimed(partners)

C25_Witness ==
    /\ pc = "analysis_returned"
    /\ ret[2] # << >>
    /\ \E i \in 1..Len(arg) :
          /\ RowDebit(arg[i]) > 0 /\ RowCredit(arg[i]) > 0
          /\ \E j \in 1..Len(ret[1]) :
                /\ ret[1][j].partner_name = Some("PENJUALAN INTERNAL")
                /\ ret[1][j].transaction_type = "DEBIT"
    /\ \E j \in 1..Len(ret[1]) : ret[1][j].transaction_type = "UNKNOWN"
    /\ \E j \in 1..Len(ret[1]) : ret[1][j].transaction_type = "CREDIT"

GroupedTable ==
    IF \A i \in 1..Len(ret[1]) : "transaction_count" \notin DOMAIN ret[1][i]
    THEN << >> ELSE ret[1]

RECURSIVE CountSum(_, _)
CountSum(t, col) ==
    IF t = << >> THEN 0 ELSE t[1][col] + CountSum(Tail(t), col)

AttributedIndexes == {i \in 1..Len(arg) : IsAttributed(impl, arg[i])}

CountsConserved(partners, groups) ==
    /\ CountSum(groups, "transaction_count")
          = Cardinality({i \in 1..Len(arg) : partners[i] # None})
    /\ CountSum(ret[2], "Total_Transactions")
          = Cardinality({i \in 1..Len(arg) : partners[i] # None})
    /\ Len(ret[2]) = Cardinality({partners[i] : i \in 1..Len(arg)} \ {None})
    /\ {Some(ret[2][j].Partner) : j \in 1..Len(ret[2])}
          = {partners[i] : i \in 1..Len(arg)} \ {None}
    /\ Len(groups) =
          Cardinality({<<partners[i], DirectionByAmounts(arg[i])>> :
                          i \in {k \in 1..Len(arg) : partners[k] # None}})
    /\ {<<groups[j].partner_name, groups[j].transaction_type>> : j \in 1..Len(groups)}
          = {<<partners[i], DirectionByAmounts(arg[i])>> :
                i \in {k \in 1..Len(arg) : partners[k] # None}}

(* C29: the transaction_count of the (partner_name, transaction_type)      *)
(* groups sums to the same number as Total_Transactions over the           *)
(* per-partner table, the number of transactions with a non-null           *)
(* partner_name; the per-partner table has one row for each distinct       *)
(* non-null partner and the grouped table one row for each distinct        *)
(* (partner, direction) pair.                                              *)
C29_CountConservation ==
    pc = "analysis_returned" =>
        \A partners \in {InputPartners} : CountsConserved(partners, GroupedTable)

C29_Witness ==
    /\ pc = "analysis_returned"
    /\ Len(arg) = 3
    /\ Cardinality(AttributedIndexes) = 2
    /\ Len(ret[1]) = 2
    /\ Len(ret[2]) = 1
    /\ ret[2][1].Total_Transactions = 2
    /\ ret[1][1].transaction_count = 1

-----------------------------------------------------------------------------
(* The CMS account header as a state machine: one call of                  *)
(* extract_cms_account_info per behaviour, on a text of up to MaxInfoLines *)
(* header lines.                                                           *)

MaxInfoLines == 2

(* lines the templates of bri_streamlit_app.py match, lines only the       *)
(* line-by-line scan would read, and one that app.py's doubled-backslash   *)
(* templates match                                                         *)
AccountInfoLines ==
    {"Account No : 0206-01-000123-30-5", "Account Name : PT MAJU JAYA",
     "Period : 01/03/2024 - 31/03/2024", "Account No : ABC-7",
     "Account\\sNo\\s:\\s\\ddd"}

AccountInfoTexts ==
    {Join(ls, "\n") : ls \in SeqsUpTo(AccountInfoLines, MaxInfoLines)}

InitAccountInfo ==
    /\ impl \in Impls
    /\ pc = "call"
    /\ arg \in AccountInfoTexts
    /\ ret = << >>
    /\ hist = << >>

CallExtractCmsAccountInfo ==
    /\ pc = "call"
    /\ ret' = extract_cms_account_info(impl, arg)
    /\ pc' = "account_info_returned"
    /\ UNCHANGED <<impl, arg, hist>>

NextAccountInfo == CallExtractCmsAccountInfo

SpecAccountInfo == InitAccountInfo /\ [][NextAccountInfo]_vars

(* a line the line-by-line scan would take a field from                    *)
ScanWouldRead(text) ==
    \E i \in 1..Len(Split(text, LineSep(impl))) :
        LET line == Strip(Split(text, LineSep(impl))[i])
        IN Contains(line, ":")
           /\ (Contains(line, "Account No") \/ Contains(line, "Account Name"))

TemplatesOnly(info, templates) ==
    /\ info = templates
    /\ info["Bank"] = Some("BRI")

(* C30: in extract_cms_account_info the line-by-line scan runs for no      *)
(* text, as the dictionary its guard tests always holds the Bank label     *)
(* "BRI": Account Number, Account Name and the period are what the ordered *)
(* templates set and stay null when no template matches.                   *)
C30_ScanNeverRuns ==
    (pc = "account_info_returned" /\ ~ret.raised) =>
        TemplatesOnly(ret.val, account_info_from_templates(impl, arg))

C30_Witness ==
    /\ pc = "account_info_returned"
    /\ ~ret.raised
    /\ arg = "Account No : ABC-7\nAccount Name : PT MAJU JAYA"
    /\ ScanWouldRead(arg)
    /\ ret.val["Account Number"] = None
    /\ ret.val["Account Name"] = None

=============================================================================
